---- MODULE Spec2Model ----
(***************************************************************************)
(* Model of feather's plug core: the Conn value (feather/core.hpp) with    *)
(* its persistent-copy operations, and the router's dispatch               *)
(* (feather/router.hpp).                                                   *)
(*                                                                         *)
(* Conn values live in the store `conns`; every Conn operation reads one   *)
(* Conn of the store and appends the Conn it returns.  Session objects     *)
(* are reached through shared pointers, so they live in `heap` and a Conn  *)
(* holds their addresses.  `last` records the last call: the operation,    *)
(* the index of its input, its arguments, its outcome and the index of     *)
(* the Conn it returned (0 when it raised).                                *)
(*                                                                         *)
(* `router` is the process-wide Router (its pipelines and its scopes).     *)
(* RouterMultiMap keeps the scopes in an immer::map from prefix to vector, *)
(* which is iterated in hash order, whatever the order of insertion:       *)
(* `iterOrder` lists the prefixes in the order the build's hash puts them. *)
(* `registered` is a history variable, the prefixes in the order           *)
(* Router::scope was called; the code does not keep it.                    *)
(*                                                                         *)
(* `server` is the Server of feather/server.hpp: its connection registry,  *)
(* its mutex and its id generator, and the handlers that are running, one  *)
(* per thread of the io_service.                                           *)
(*                                                                         *)
(* Text that the code parses (targets, query strings) is a sequence of     *)
(* one-character strings; text that is only stored and compared is a       *)
(* TLA+ string.                                                            *)
(***************************************************************************)
EXTENDS Integers, Sequences, FiniteSets, TLC

VARIABLES conns, heap, last, router, iterOrder, registered, server

vars == <<conns, heap, last, router, iterOrder, registered, server>>

(***************************************************************************)
(* Bounds of the model.                                                    *)
(***************************************************************************)
\* number of Conn values kept in the store
MaxConns == 3
\* number of scopes registered in the router
MaxScopes == 2

(***************************************************************************)
(* Persistent maps (immer::map): functions with a finite domain.           *)
(***************************************************************************)
EmptyMap == << >>

MapSet(m, k, v) == [x \in (DOMAIN m) \cup {k} |-> IF x = k THEN v ELSE m[x]]

MapErase(m, k) == [x \in (DOMAIN m) \ {k} |-> m[x]]

\* immer::map::find: a pointer to the value, null when the key is absent
MapHas(m, k) == k \in DOMAIN m

\* functional::merge: every association of map2 set over map1
merge(map1, map2) ==
    [x \in (DOMAIN map1) \cup (DOMAIN map2) |->
        IF x \in DOMAIN map2 THEN map2[x] ELSE map1[x]]

\* std::optional and nullable pointers: empty, or holding one value
None == << >>

Some(v) == << v >>

(***************************************************************************)
(* http::Headers: std::multimap<string, string, detail::ci> of httplib     *)
(* v0.14.1.  Keys compare without regard to case; entries are kept sorted  *)
(* by key and, among equivalent keys, in insertion order.  A header map    *)
(* is the sequence of its <<key, value>> entries in iteration order.       *)
(***************************************************************************)
\* the lower-cased spelling of the header keys the model uses
LowerKey ==
    [k \in {"host", "Host", "x", "X", "cookie", "Cookie", "Upgrade", "Connection",
            "Content-Type", "Location"} |->
        CASE k \in {"host", "Host"}  -> "host"
          [] k \in {"x", "X"}        -> "x"
          [] k \in {"cookie", "Cookie"} -> "cookie"
          [] k = "Upgrade"           -> "upgrade"
          [] k = "Connection"        -> "connection"
          [] k = "Content-Type"      -> "content-type"
          [] k = "Location"          -> "location"]

\* lexicographic rank of the lower-cased keys
KeyRank ==
    [k \in {"connection", "content-type", "cookie", "host", "location",
            "upgrade", "x"} |->
        CASE k = "connection"   -> 1
          [] k = "content-type" -> 2
          [] k = "cookie"       -> 3
          [] k = "host"         -> 4
          [] k = "location"     -> 5
          [] k = "upgrade"      -> 6
          [] k = "x"            -> 7]

\* detail::ci: a < b on the lower-cased keys
ci_less(a, b) == KeyRank[LowerKey[a]] < KeyRank[LowerKey[b]]

ci_equiv(a, b) == LowerKey[a] = LowerKey[b]

\* multimap::erase(key): drops every entry whose key is equivalent to key
HdrErase(h, key) == SelectSeq(h, LAMBDA e : ~ci_equiv(e[1], key))

\* multimap::insert(entry): at the upper bound of the equivalent keys
HdrInsert(h, key, value) ==
    LET before == SelectSeq(h, LAMBDA e : ~ci_less(key, e[1]))
        after  == SelectSeq(h, LAMBDA e : ci_less(key, e[1]))
    IN  before \o << <<key, value>> >> \o after

\* multimap::equal_range(key): the values stored under key, in order
HdrValues(h, key) ==
    LET es == SelectSeq(h, LAMBDA e : ci_equiv(e[1], key))
    IN  [i \in 1..Len(es) |-> es[i][2]]

RECURSIVE HdrInsertAll(_, _)
\* inserts the entries of hs one after the other
HdrInsertAll(h, hs) ==
    IF hs = << >> THEN h
    ELSE HdrInsertAll(HdrInsert(h, hs[1][1], hs[1][2]), Tail(hs))

RECURSIVE HdrPutAll(_, _)
\* for every entry of hs: erase its key, then insert the entry
HdrPutAll(h, hs) ==
    IF hs = << >> THEN h
    ELSE HdrPutAll(HdrInsert(HdrErase(h, hs[1][1]), hs[1][1], hs[1][2]), Tail(hs))

(***************************************************************************)
(* Sessions.  A CookieSession is an immutable storage map; every Session   *)
(* method is const and returns a new object.  heap[a] is the storage of    *)
(* the session object at address a.                                        *)
(***************************************************************************)
\* the result of a Session method that allocates: the new heap and address
Alloc(h, storage) == [heap |-> Append(h, storage), addr |-> Len(h) + 1]

\* CookieSession::clone / shared_clone: a copy of the object
Session_clone(h, a) == Alloc(h, h[a])

\* CookieSession::get_session: the value, or an empty std::any
Session_get_session(h, a, key) == IF MapHas(h[a], key) THEN Some(h[a][key]) ELSE None

\* a put_session that writes the storage of the object it is called on
Session_put_session_in_place(h, a, key, value) ==
    [heap |-> [h EXCEPT ![a] = MapSet(h[a], key, value)], addr |-> a]

\* CookieSession::put_session: a new object with key set
Session_put_session(h, a, key, value) == Alloc(h, MapSet(h[a], key, value))

\* CookieSession::delete_session: a new object without key
Session_delete_session(h, a, key) == Alloc(h, MapErase(h[a], key))

\* a reset_session that copies the storage
Session_reset_session_keeps(h, a) == Alloc(h, h[a])

\* CookieSession::reset_session: a new, empty object
Session_reset_session(h, a) == Alloc(h, EmptyMap)

(***************************************************************************)
(* ConnState = std::variant<Sent, Unsent>.                                 *)
(***************************************************************************)
Unsent == {"UNSET", "SET", "SET_CHUNKED", "SET_FILE", "FILE", "CHUNKED",
           "SENT", "UPGRADED"}

ConnState == {"Sent"} \cup Unsent

SessionOpt == {"WRITE", "RENEW", "DROP", "IGNORE"}

\* the guard written at the head of the header and status mutators
StateGuard(c) ==
    \/ c.state = "Sent"
    \/ c.state = "CHUNKED"
    \/ c.state = "UPGRADED"

(***************************************************************************)
(* Result<Conn> and raised exceptions.  An operation yields a tag, the     *)
(* Conn it returns and the heap it leaves; tag "Conn" is a plain Conn      *)
(* return, "Ok"/"Err" the two ResultTypes, "Raise" a thrown exception      *)
(* (no Conn is returned then).                                             *)
(***************************************************************************)
Ret(tag, c, h) == [tag |-> tag, conn |-> c, heap |-> h]

Raise(c, h) == Ret("Raise", c, h)

(***************************************************************************)
(* Text: std::string as a sequence of one-character strings.               *)
(***************************************************************************)
\* std::string::npos
NPos == -1

Min(a, b) == IF a < b THEN a ELSE b

\* std::string::find(ch): the 0-based position of the first ch, or npos
Find(s, ch) ==
    IF \E i \in 1..Len(s) : s[i] = ch
    THEN (CHOOSE i \in 1..Len(s) : s[i] = ch /\ \A j \in 1..(i - 1) : s[j] # ch) - 1
    ELSE NPos

\* does pat occur in s at 0-based position pos
OccursAt(s, pat, pos) ==
    /\ pos + Len(pat) <= Len(s)
    /\ \A j \in 1..Len(pat) : s[pos + j] = pat[j]

\* std::string::find(pat): the 0-based position of the first occurrence
FindStr(s, pat) ==
    IF \E p \in 0..Len(s) : OccursAt(s, pat, p)
    THEN CHOOSE p \in 0..Len(s) :
            OccursAt(s, pat, p) /\ \A q \in 0..(p - 1) : ~OccursAt(s, pat, q)
    ELSE NPos

\* std::string::substr(pos): from the 0-based position pos to the end
SubstrFrom(s, pos) == SubSeq(s, pos + 1, Len(s))

\* std::string::substr(pos, count); count is a size_t, so a negative
\* difference wraps to a huge count and the result runs to the end
Substr(s, pos, count) ==
    IF count < 0 THEN SubstrFrom(s, pos)
    ELSE SubSeq(s, pos + 1, Min(pos + count, Len(s)))

RECURSIVE Tokenize(_, _)
\* boost::tokenizer with char_separator(sep): the non-empty pieces between
\* separators, in order
Tokenize(s, sep) ==
    LET p == Find(s, sep)
    IN  IF s = << >> THEN << >>
        ELSE IF p = NPos THEN << s >>
        ELSE IF p = 0 THEN Tokenize(SubstrFrom(s, 1), sep)
        ELSE << SubSeq(s, 1, p) >> \o Tokenize(SubstrFrom(s, p + 1), sep)

RECURSIVE TrimLeft(_)
TrimLeft(s) == IF s # << >> /\ s[1] = " " THEN TrimLeft(Tail(s)) ELSE s

RECURSIVE TrimRight(_)
TrimRight(s) ==
    IF s # << >> /\ s[Len(s)] = " " THEN TrimRight(SubSeq(s, 1, Len(s) - 1)) ELSE s

\* boost::trim_copy
trim_copy(s) == TrimRight(TrimLeft(s))

\* std::isupper on the characters the model uses
IsUpper(ch) == ch \in {"P", "D", "S", "H"}

\* a byte that is not valid UTF-8
InvalidByte == "xFF"

\* boost::locale::utf::utf_traits<char>::decode over the whole text:
\* TRUE when some code point is illegal or incomplete
Utf8Invalid(s) == \E i \in 1..Len(s) : s[i] = InvalidByte

\* boost::to_lower_copy on the request methods
to_lower_copy(m) ==
    CASE m = "GET"    -> "get"
      [] m = "POST"   -> "post"
      [] m = "PUT"    -> "put"
      [] m = "DELETE" -> "delete"
      [] m = "PATCH"  -> "patch"
      [] OTHER        -> m

\* std::stof / std::stoi on an option value: the number, or NPos when
\* no conversion can be performed (std::invalid_argument is thrown)
ParseNumber(s) ==
    CASE s = <<"0">> -> 0
      [] s = <<"1">> -> 1
      [] s = <<"2">> -> 2
      [] s = <<"3">> -> 3
      [] s = <<"1", "0">> -> 10
      [] OTHER -> NPos

(***************************************************************************)
(* The request parsers of feather::core::plug.                             *)
(***************************************************************************)
\* GetQueryFromTarget
GetQueryFromTarget(target) ==
    LET start == Find(target, "?")
        end   == Find(target, "#")
    IN  IF start = NPos THEN << >>
        ELSE IF end = NPos THEN SubstrFrom(target, start + 1)
        ELSE Substr(target, start + 1, end - start - 1)

RECURSIVE ParseCookieTokens_keeps_attributes(_, _)
\* a loop of ParseCookie that does not look at the case of the key
ParseCookieTokens_keeps_attributes(toks, map) ==
    IF toks = << >> THEN map
    ELSE
        LET it        == toks[1]
            equal_pos == Find(it, "=")
            key       == trim_copy(SubSeq(it, 1, equal_pos))
            value     == trim_copy(SubstrFrom(it, equal_pos + 1))
        IN  IF equal_pos = NPos
            THEN ParseCookieTokens_keeps_attributes(Tail(toks), map)
            ELSE ParseCookieTokens_keeps_attributes(Tail(toks), MapSet(map, key, value))

RECURSIVE ParseCookieTokens(_, _)
\* the loop of ParseCookie over the tokens
ParseCookieTokens(toks, map) ==
    IF toks = << >> THEN map
    ELSE
        LET it        == toks[1]
            equal_pos == Find(it, "=")
            key       == trim_copy(SubSeq(it, 1, equal_pos))
            value     == trim_copy(SubstrFrom(it, equal_pos + 1))
        IN  IF equal_pos = NPos THEN ParseCookieTokens(Tail(toks), map)
            ELSE IF key # << >> /\ IsUpper(key[1])
                 THEN ParseCookieTokens(Tail(toks), map)
            ELSE ParseCookieTokens(Tail(toks), MapSet(map, key, value))

\* ParseCookie
ParseCookie(cookie) == ParseCookieTokens(Tokenize(cookie, ";"), EmptyMap)

(***************************************************************************)
(* Conn.                                                                   *)
(***************************************************************************)
\* http::Request::get_header_value(key): the first value, "" when absent
get_header_value(headers, key) ==
    IF HdrValues(headers, key) = << >> THEN << >> ELSE HdrValues(headers, key)[1]

\* Conn::Conn(http::Request&&, std::shared_ptr<Session>): s is the address
\* of the session, cp the address of its shared_clone, info the value the
\* uninitialised session_info member happens to hold
NewConn(req, s, cp, info) ==
    [ session      |-> s,
      session_copy |-> cp,
      session_info |-> info,
      host         |-> get_header_value(req.headers, "Host"),
      method       |-> to_lower_copy(req.method),
      request_url  |-> req.target,
      request_path |-> req.path,
      req_headers  |-> req.headers,
      scheme       |-> req.version,
      query_string |-> GetQueryFromTarget(req.target),
      req_body     |-> req.body,
      cookies      |-> None,
      req_cookies  |-> None,
      query_params |-> None,
      resp_body    |-> None,
      resp_cookies |-> EmptyMap,
      resp_headers |-> << >>,
      status       |-> None,
      callbacks_before_send |-> << >>,
      assigns      |-> EmptyMap,
      halted       |-> FALSE,
      state        |-> "UNSET" ]

\* an http::Headers built from a list of entries
Headers(entries) == HdrInsertAll(<< >>, entries)

\* Conn::assign
assign(c, key, value, h) ==
    Ret("Conn", [c EXCEPT !.assigns = MapSet(c.assigns, key, value)], h)

\* a merge_assigns that keeps the value of a key already present
merge_assigns_keeps_present(c, new_assigns, h) ==
    Ret("Conn", [c EXCEPT !.assigns = merge(new_assigns, c.assigns)], h)

\* Conn::merge_assigns
merge_assigns(c, new_assigns, h) ==
    Ret("Conn", [c EXCEPT !.assigns = merge(c.assigns, new_assigns)], h)

\* Conn::chunk
chunk(c, chk, h) ==
    IF chk = << >> THEN Ret("Ok", c, h)
    ELSE IF c.state = "CHUNKED" THEN Ret("Ok", c, h)
    ELSE Ret("Err", c, h)

\* Conn::get_session(conn, key)
get_session(c, key, h) == Session_get_session(h, c.session_copy, key)

\* a put_session that writes the object the Conn was built around
put_session_writes_session(c, key, value, h) ==
    Ret("Conn", c, [h EXCEPT ![c.session] = MapSet(h[c.session], key, value)])

\* Conn::put_session(conn, key, value)
put_session(c, key, value, h) ==
    LET a == Session_put_session(h, c.session_copy, key, value)
    IN  Ret("Conn", [c EXCEPT !.session_copy = a.addr], a.heap)

\* Conn::delete_session
delete_session(c, key, h) ==
    LET a == Session_delete_session(h, c.session_copy, key)
    IN  Ret("Conn", [c EXCEPT !.session_copy = a.addr], a.heap)

\* Conn::clear_session through the private Conn::put_session helper: the
\* clone handed to the callback is a temporary, the session the callback
\* returns is never null
clear_session(c, h) ==
    LET a == Session_reset_session(h, c.session_copy)
    IN  Ret("Conn", [c EXCEPT !.session_copy = a.addr, !.session_info = "WRITE"],
            a.heap)

\* Conn::configure_session
configure_session(c, opt, h) ==
    IF c.state = "Sent" THEN Ret("Err", c, h)
    ELSE IF opt # "WRITE" THEN Ret("Ok", [c EXCEPT !.session_info = opt], h)
    ELSE Ret("Ok", c, h)

\* Conn::get_req_header
get_req_header(c, key) == HdrValues(c.req_headers, key)

\* a put_req_header that treats host like any other key
put_req_header_host_as_header(c, key, value, h) ==
    IF StateGuard(c) THEN Ret("Err", c, h)
    ELSE Ret("Ok",
             [c EXCEPT !.req_headers = HdrInsert(HdrErase(c.req_headers, key), key, value)],
             h)

\* Conn::put_req_header
put_req_header(c, key, value, h) ==
    IF StateGuard(c) THEN Ret("Err", c, h)
    ELSE IF key = "host" THEN Ret("Ok", [c EXCEPT !.host = value], h)
    ELSE Ret("Ok",
             [c EXCEPT !.req_headers = HdrInsert(HdrErase(c.req_headers, key), key, value)],
             h)

\* the callbacks handed to update_req_header / update_resp_header
ApplyFunc(func, old) ==
    CASE func = "bang"  -> old \o <<"!">>
      [] func = "const" -> <<"z">>

\* multimap::extract(key) followed by insert(node) with a new mapped
\* value: the first entry equivalent to key leaves its place and comes
\* back, updated, at the upper bound of the equivalent keys
HdrUpdateFirst(hs, key, func) ==
    LET idx  == CHOOSE i \in 1..Len(hs) :
                    /\ ci_equiv(hs[i][1], key)
                    /\ \A j \in 1..(i - 1) : ~ci_equiv(hs[j][1], key)
        rest == SubSeq(hs, 1, idx - 1) \o SubSeq(hs, idx + 1, Len(hs))
    IN  HdrInsert(rest, hs[idx][1], ApplyFunc(func, hs[idx][2]))

\* what a build does when the code writes through key() and mapped() of
\* an empty node handle (undefined behaviour): the process crashes, or
\* the writes go unnoticed and inserting the empty handle adds nothing
EmptyHandleOutcomes == {"crash", "nothing"}

\* Conn::update_req_header; ub is the outcome of the undefined behaviour
update_req_header(c, key, initial, func, ub, h) ==
    IF StateGuard(c) THEN Ret("Err", c, h)
    ELSE IF HdrValues(c.req_headers, key) = << >>
         THEN IF ub = "crash" THEN Raise(c, h) ELSE Ret("Ok", c, h)
    ELSE Ret("Ok", [c EXCEPT !.req_headers = HdrUpdateFirst(c.req_headers, key, func)], h)

\* the host entry both bulk request-header operations look for
HostOf(c, headers) ==
    IF HdrValues(headers, "host") = << >> THEN c.host
    ELSE HdrValues(headers, "host")[1]

\* Conn::prepend_req_headers
prepend_req_headers(c, headers, h) ==
    IF StateGuard(c) THEN Ret("Err", c, h)
    ELSE Ret("Ok",
             [c EXCEPT !.host = HostOf(c, headers),
                       !.req_headers = HdrInsertAll(c.req_headers, HdrErase(headers, "host"))],
             h)

\* Conn::merge_req_headers
merge_req_headers(c, headers, h) ==
    IF StateGuard(c) THEN Ret("Err", c, h)
    ELSE Ret("Ok",
             [c EXCEPT !.host = HostOf(c, headers),
                       !.req_headers = HdrPutAll(c.req_headers, HdrErase(headers, "host"))],
             h)

\* a delete_req_header that removes the first value of the key only
delete_req_header_first_only(c, key, h) ==
    LET hs    == c.req_headers
        found == { i \in 1..Len(hs) : ci_equiv(hs[i][1], key) }
        idx   == CHOOSE i \in found : \A j \in found : i <= j
    IN  IF c.state = "Sent" THEN Ret("Err", c, h)
        ELSE IF found = {} THEN Ret("Ok", c, h)
        ELSE Ret("Ok",
                 [c EXCEPT !.req_headers = SubSeq(hs, 1, idx - 1) \o SubSeq(hs, idx + 1, Len(hs))],
                 h)

\* Conn::delete_req_header
delete_req_header(c, key, h) ==
    IF c.state = "Sent" THEN Ret("Err", c, h)
    ELSE Ret("Ok", [c EXCEPT !.req_headers = HdrErase(c.req_headers, key)], h)

RECURSIVE ParseQueryTokens(_, _, _)
RECURSIVE ParseQueryTokens_first_wins(_, _, _)
\* a loop over the pairs that keeps the first value of a repeated key
ParseQueryTokens_first_wins(toks, validate_ut8, query_params) ==
    IF toks = << >> THEN Some(query_params)
    ELSE
        LET param      == toks[1]
            equal_sign == Find(param, "=")
            key        == SubSeq(param, 1, equal_sign)
            value      == SubstrFrom(param, equal_sign + 1)
        IN  IF equal_sign = NPos THEN None
            ELSE IF validate_ut8 = "true" /\ Utf8Invalid(param) THEN None
            ELSE ParseQueryTokens_first_wins(
                     Tail(toks), validate_ut8,
                     IF MapHas(query_params, key) THEN query_params
                     ELSE MapSet(query_params, key, value))

\* the loop of fetch_query_params over the pairs: the parsed map in an
\* optional, or None as soon as a pair has no "=" or fails the UTF-8
\* validation
ParseQueryTokens(toks, validate_ut8, query_params) ==
    IF toks = << >> THEN Some(query_params)
    ELSE
        LET param      == toks[1]
            equal_sign == Find(param, "=")
            key        == SubSeq(param, 1, equal_sign)
            value      == SubstrFrom(param, equal_sign + 1)
        IN  IF equal_sign = NPos THEN None
            ELSE IF validate_ut8 = "true" /\ Utf8Invalid(param) THEN None
            ELSE ParseQueryTokens(Tail(toks), validate_ut8, MapSet(query_params, key, value))

\* the default of the "length" option of fetch_query_params
DefaultQueryLength == 1000000

\* a fetch_query_params that parses again on a Conn already fetched
fetch_query_params_again(c, opts, h) ==
    LET max_length == IF MapHas(opts, "length") THEN ParseNumber(opts["length"])
                      ELSE DefaultQueryLength
        parsed     == ParseQueryTokens(Tokenize(c.query_string, "&"), "true", EmptyMap)
    IN  IF max_length = NPos THEN Raise(c, h)
        ELSE IF Len(c.query_string) > max_length THEN Ret("Conn", [c EXCEPT !.status = Some(414)], h)
        ELSE IF parsed = None THEN Ret("Conn", [c EXCEPT !.status = Some(414)], h)
        ELSE Ret("Conn", [c EXCEPT !.query_params = parsed], h)

\* Conn::fetch_query_params
fetch_query_params(c, opts, h) ==
    IF c.query_params # None THEN Ret("Conn", c, h)
    ELSE
        LET max_length   == IF MapHas(opts, "length") THEN ParseNumber(opts["length"])
                            ELSE DefaultQueryLength
            validate_ut8 == IF MapHas(opts, "length") /\ opts["length"] = <<"f", "a", "l", "s", "e">>
                            THEN "false" ELSE "true"
            parsed       == ParseQueryTokens(Tokenize(c.query_string, "&"), validate_ut8, EmptyMap)
        IN  IF max_length = NPos THEN Raise(c, h)
            ELSE IF Len(c.query_string) > max_length THEN Ret("Conn", [c EXCEPT !.status = Some(414)], h)
            ELSE IF parsed = None THEN Ret("Conn", [c EXCEPT !.status = Some(414)], h)
            ELSE Ret("Conn", [c EXCEPT !.query_params = parsed], h)

RECURSIVE CookiesOfHeaders(_, _)
\* the loop of fetch_cookies over the request headers named "cookie"
CookiesOfHeaders(hs, req_cookies) ==
    IF hs = << >> THEN req_cookies
    ELSE IF hs[1][1] # "cookie" THEN CookiesOfHeaders(Tail(hs), req_cookies)
    ELSE CookiesOfHeaders(Tail(hs), merge(req_cookies, ParseCookie(hs[1][2])))

\* an overlay in which a staged cookie without a value hides nothing
OverlayCookies_value_only(resp_cookies, req_cookies) ==
    [k \in (DOMAIN req_cookies) \cup {x \in DOMAIN resp_cookies : MapHas(resp_cookies[x], "value")} |->
        IF k \in DOMAIN resp_cookies /\ MapHas(resp_cookies[k], "value")
        THEN resp_cookies[k]["value"] ELSE req_cookies[k]]

\* the functional::reduce of fetch_cookies over the staged cookies: one
\* with a value shows, one without a value hides the key
OverlayCookies(resp_cookies, req_cookies) ==
    [k \in ((DOMAIN req_cookies) \cup {x \in DOMAIN resp_cookies : MapHas(resp_cookies[x], "value")})
           \ {x \in DOMAIN resp_cookies : ~MapHas(resp_cookies[x], "value")} |->
        IF k \in DOMAIN resp_cookies THEN resp_cookies[k]["value"] ELSE req_cookies[k]]

\* Conn::fetch_cookies; the "signed" and "encrypted" options do nothing
fetch_cookies(c, opts, h) ==
    IF c.req_cookies # None THEN Ret("Conn", c, h)
    ELSE
        LET req_cookies == CookiesOfHeaders(c.req_headers, EmptyMap)
        IN  Ret("Conn",
                [c EXCEPT !.req_cookies = Some(req_cookies),
                          !.cookies = Some(OverlayCookies(c.resp_cookies, req_cookies))],
                h)

\* the expiry delete_resp_cookie writes
EpochTime == <<"Thu, 01 Jan 1970 00:00:00 GMT">>

\* a delete_resp_cookie that stages the expiring map whether or not the
\* key is staged
delete_resp_cookie_always(c, key, opts, h) ==
    LET o1 == MapSet(MapSet(opts, "universal_time", EpochTime), "max_age", <<"0">>)
        o2 == IF c.scheme = "https" THEN MapSet(o1, "secure", <<"true">>) ELSE o1
    IN  Ret("Conn", [c EXCEPT !.resp_cookies = MapSet(c.resp_cookies, key, o2)], h)

\* Conn::delete_resp_cookie
delete_resp_cookie(c, key, opts, h) ==
    LET o1 == MapSet(MapSet(opts, "universal_time", EpochTime), "max_age", <<"0">>)
        o2 == IF c.scheme = "https" THEN MapSet(o1, "secure", <<"true">>) ELSE o1
    IN  IF MapHas(c.resp_cookies, key)
        THEN Ret("Conn", [c EXCEPT !.resp_cookies = MapSet(c.resp_cookies, key, o2)], h)
        ELSE Ret("Conn", c, h)

\* a put_resp_cookie that stores the options as given, flags included
put_resp_cookie_keeps_flags(c, key, value, opts, h) ==
    LET max_age == IF MapHas(opts, "max_age") THEN ParseNumber(opts["max_age"]) ELSE 86400
        o2      == MapSet(opts, "value", key \o <<"_cookie=">> \o value)
    IN  IF max_age = NPos THEN Raise(c, h)
        ELSE IF MapHas(opts, "sign") /\ MapHas(opts, "encrypt") THEN Ret("Err", c, h)
        ELSE Ret("Ok", [c EXCEPT !.resp_cookies = MapSet(c.resp_cookies, key, o2)], h)

\* Conn::put_resp_cookie
put_resp_cookie(c, key, value, opts, h) ==
    LET sign    == MapHas(opts, "sign")
        encrypt == MapHas(opts, "encrypt")
        o1      == MapErase(MapErase(opts, "sign"), "encrypt")
        max_age == IF MapHas(o1, "max_age") THEN ParseNumber(o1["max_age"]) ELSE 86400
        o2      == MapSet(o1, "value", key \o <<"_cookie=">> \o value)
    IN  IF max_age = NPos THEN Raise(c, h)
        ELSE IF sign /\ encrypt THEN Ret("Err", c, h)
        ELSE Ret("Ok", [c EXCEPT !.resp_cookies = MapSet(c.resp_cookies, key, o2)], h)

\* a merge_resp_headers that inserts beside the values already held
merge_resp_headers_keeps_old(c, headers, h) ==
    IF StateGuard(c) THEN Ret("Err", c, h)
    ELSE Ret("Ok", [c EXCEPT !.resp_headers = HdrInsertAll(c.resp_headers, headers)], h)

\* Conn::merge_resp_headers
merge_resp_headers(c, headers, h) ==
    IF StateGuard(c) THEN Ret("Err", c, h)
    ELSE Ret("Ok", [c EXCEPT !.resp_headers = HdrPutAll(c.resp_headers, headers)], h)

\* Conn::prepend_resp_header
prepend_resp_header(c, headers, h) ==
    IF StateGuard(c) THEN Ret("Err", c, h)
    ELSE Ret("Ok", [c EXCEPT !.resp_headers = HdrInsertAll(c.resp_headers, headers)], h)

\* value.rfind("\n") != npos || value.rfind("\r") != npos
HasLineBreak(value) == \E i \in 1..Len(value) : value[i] \in {"\n", "\r"}

\* a put_resp_header that writes the header before it looks at the value
put_resp_header_write_first(c, key, value, h) ==
    IF StateGuard(c) THEN Ret("Err", c, h)
    ELSE Ret(IF HasLineBreak(value) THEN "Err" ELSE "Ok",
             [c EXCEPT !.resp_headers = HdrInsert(HdrErase(c.resp_headers, key), key, value)],
             h)

\* a put_resp_header that inserts without erasing the key first
put_resp_header_insert_only(c, key, value, h) ==
    IF StateGuard(c) \/ HasLineBreak(value) THEN Ret("Err", c, h)
    ELSE Ret("Ok", [c EXCEPT !.resp_headers = HdrInsert(c.resp_headers, key, value)], h)

\* Conn::put_resp_header
put_resp_header(c, key, value, h) ==
    IF StateGuard(c) \/ HasLineBreak(value) THEN Ret("Err", c, h)
    ELSE Ret("Ok",
             [c EXCEPT !.resp_headers = HdrInsert(HdrErase(c.resp_headers, key), key, value)],
             h)

\* Conn::delete_resp_header
delete_resp_header(c, key, h) ==
    IF StateGuard(c) THEN Ret("Err", c, h)
    ELSE Ret("Ok", [c EXCEPT !.resp_headers = HdrErase(c.resp_headers, key)], h)

\* Conn::update_resp_header; ub is the outcome of the undefined behaviour
update_resp_header(c, key, initial, func, ub, h) ==
    IF StateGuard(c) THEN Ret("Err", c, h)
    ELSE IF HdrValues(c.resp_headers, key) = << >>
         THEN IF ub = "crash" THEN Raise(c, h) ELSE Ret("Ok", c, h)
    ELSE Ret("Ok", [c EXCEPT !.resp_headers = HdrUpdateFirst(c.resp_headers, key, func)], h)

\* Conn::get_resp_header
get_resp_header(c, key) == HdrValues(c.resp_headers, key)

\* Conn::halt
halt(c, h) == Ret("Conn", [c EXCEPT !.halted = TRUE], h)

\* core::unwrap: the value of a result, a runtime_error on Err
unwrap(r) == IF r.tag = "Err" THEN Raise(r.conn, r.heap) ELSE Ret("Conn", r.conn, r.heap)

\* Conn::put_resp_content_type
put_resp_content_type(c, content_type, charset, h) ==
    LET content == IF charset = <<"none">> THEN content_type
                   ELSE content_type \o <<"; charset=">> \o charset
    IN  unwrap(put_resp_header(c, "Content-Type", content, h))

\* Conn::put_status
put_status(c, status, h) ==
    IF StateGuard(c) THEN Ret("Err", c, h)
    ELSE Ret("Ok", [c EXCEPT !.status = Some(status)], h)

\* Conn::read_body: the body read is always empty, the Conn is the input
read_body(c, opts, h) ==
    IF MapHas(opts, "length") /\ ParseNumber(opts["length"]) = NPos THEN Raise(c, h)
    ELSE Ret("Ok", c, h)

\* a register_before_send that puts the callback in front
register_before_send_in_front(c, callback, h) ==
    IF c.state = "Sent" THEN Raise(c, h)
    ELSE Ret("Conn",
             [c EXCEPT !.callbacks_before_send = <<callback>> \o c.callbacks_before_send],
             h)

\* Conn::register_before_send
register_before_send(c, callback, h) ==
    IF c.state = "Sent" THEN Raise(c, h)
    ELSE Ret("Conn",
             [c EXCEPT !.callbacks_before_send = Append(c.callbacks_before_send, callback)],
             h)

\* a resp that stores the body in req_body
resp_into_req_body(c, status, body, h) ==
    IF StateGuard(c) THEN Raise(c, h)
    ELSE Ret("Conn", [c EXCEPT !.state = "SET", !.status = Some(status), !.req_body = body], h)

\* a resp without the guard on the state
resp_unguarded(c, status, body, h) ==
    Ret("Conn", [c EXCEPT !.state = "SET", !.status = Some(status), !.resp_body = Some(body)], h)

\* Conn::resp
resp(c, status, body, h) ==
    IF StateGuard(c) THEN Raise(c, h)
    ELSE Ret("Conn", [c EXCEPT !.state = "SET", !.status = Some(status), !.resp_body = Some(body)], h)

\* Conn::upgrade_conn
upgrade_conn(c, protocol, h) ==
    Ret("Conn",
        [c EXCEPT !.status = Some(426),
                  !.resp_headers = HdrInsert(HdrInsert(c.resp_headers, "Upgrade", protocol),
                                             "Connection", <<"Upgrade">>),
                  !.state = "UPGRADED"],
        h)

(***************************************************************************)
(* Plugs, controllers and the router (feather/router.hpp).                 *)
(***************************************************************************)
\* the plugs of the model, as the PLUG macro wraps them: a Conn operation
\* with its arguments bound
RunPlug(plug, c, h) ==
    CASE plug = "fetch_cookies"      -> fetch_cookies(c, {}, h)
      [] plug = "fetch_query_params" -> fetch_query_params(c, EmptyMap, h)
      [] plug = "assign_key_test"    -> assign(c, "key_test", 42, h)
      [] plug = "halt"               -> halt(c, h)
      [] plug = "reg_a"              -> register_before_send(c, "a", h)
      [] plug = "reg_b"              -> register_before_send(c, "b", h)
      [] plug = "reg_c"              -> register_before_send(c, "c", h)
      [] plug = "put_session"        -> put_session(c, "sk", "v1", h)
      [] plug = "delete_session"     -> delete_session(c, "sk", h)
      [] plug = "clear_session"      -> clear_session(c, h)
      [] plug = "configure_session"  -> unwrap(configure_session(c, "RENEW", h))

\* controller::text
text(c, body, h) ==
    LET r == unwrap(put_resp_header(c, "Content-Type", <<"text/plain">>, h))
    IN  IF r.tag = "Raise" THEN r ELSE resp(r.conn, 200, body, r.heap)

\* controller::redirect
redirect(c, url, h) ==
    LET r == unwrap(put_resp_header(c, "Location", url, h))
    IN  IF r.tag = "Raise" THEN r ELSE resp(r.conn, 302, << >>, r.heap)

\* the terminal handlers of the model: a controller with its arguments bound
RunHandler(handler, c, h) ==
    CASE handler = "text"     -> text(c, <<"hello">>, h)
      [] handler = "redirect" -> redirect(c, <<"/", "a">>, h)

\* the null HttpHandler
nullptr == "nullptr"

RECURSIVE RunPlugs_last_first(_, _)
\* a loop that runs the plugs of a pipeline from the last to the first
RunPlugs_last_first(plugs, r) ==
    IF plugs = << >> \/ r.tag = "Raise" THEN r
    ELSE RunPlugs_last_first(SubSeq(plugs, 1, Len(plugs) - 1),
                             RunPlug(plugs[Len(plugs)], r.conn, r.heap))

RECURSIVE RunPlugs_stops_on_halted(_, _)
\* a loop that runs no plug on a halted Conn
RunPlugs_stops_on_halted(plugs, r) ==
    IF plugs = << >> \/ r.tag = "Raise" \/ r.conn.halted THEN r
    ELSE RunPlugs_stops_on_halted(Tail(plugs), RunPlug(plugs[1], r.conn, r.heap))

RECURSIVE RunPlugs(_, _)
\* the inner loop of PIPE_THROUGH: new_conn = pip(new_conn, {}) for every
\* plug of one pipeline; an exception ends the loop
RunPlugs(plugs, r) ==
    IF plugs = << >> \/ r.tag = "Raise" THEN r
    ELSE RunPlugs(Tail(plugs), RunPlug(plugs[1], r.conn, r.heap))

RECURSIVE PIPE_THROUGH_unknown_raises(_, _, _)
\* a closure that throws on a name the router holds no pipeline for
PIPE_THROUGH_unknown_raises(p_lines, pipelines, r) ==
    IF p_lines = << >> \/ r.tag = "Raise" THEN r
    ELSE IF ~MapHas(pipelines, p_lines[1]) THEN Raise(r.conn, r.heap)
    ELSE PIPE_THROUGH_unknown_raises(Tail(p_lines), pipelines,
                                     RunPlugs(pipelines[p_lines[1]], r))

RECURSIVE PIPE_THROUGH(_, _, _)
\* the closure PIPE_THROUGH stores in scope.pipeline: for every name, in
\* the order written, the plugs the router holds under that name now
\* (immer::map::operator[] gives an empty vector for an unknown name)
PIPE_THROUGH(p_lines, pipelines, r) ==
    IF p_lines = << >> \/ r.tag = "Raise" THEN r
    ELSE
        LET plugs == IF MapHas(pipelines, p_lines[1]) THEN pipelines[p_lines[1]]
                     ELSE << >>
        IN  PIPE_THROUGH(Tail(p_lines), pipelines, RunPlugs(plugs, r))

\* scope.pipeline(conn, {}): calling the empty std::function of a scope
\* that never ran PIPE_THROUGH throws std::bad_function_call
ScopePipeline(scope, pipelines, c, h) ==
    IF scope.pipeline = None THEN Raise(c, h)
    ELSE PIPE_THROUGH(scope.pipeline[1], pipelines, Ret("Conn", c, h))

\* the route table router_handler consults for a method
RouteTable(scope, method) ==
    CASE method = "get"    -> scope.get
      [] method = "post"   -> scope.post
      [] method = "put"    -> scope.put
      [] method = "delete" -> scope.del
      [] OTHER             -> EmptyMap

\* a method branch that hands the inbound Conn, not the pipeline's
\* result, to the handler
RunRoute_handler_on_input(scope, pipelines, path, c, h) ==
    LET handler == RouteTable(scope, c.method)[path]
        piped   == ScopePipeline(scope, pipelines, c, h)
    IN  IF handler = nullptr THEN piped
        ELSE IF piped.tag = "Raise" THEN piped
        ELSE RunHandler(handler, c, h)

\* the body of a method branch of router_handler: the pipeline alone for a
\* null handler, the pipeline piped into the handler otherwise
RunRoute(scope, pipelines, path, c, h) ==
    LET handler == RouteTable(scope, c.method)[path]
        piped   == ScopePipeline(scope, pipelines, c, h)
    IN  IF handler = nullptr THEN piped
        ELSE IF piped.tag = "Raise" THEN piped
        ELSE RunHandler(handler, piped.conn, piped.heap)

\* the outcome of a loop that found no route
NoRoute == [tag |-> "NoRoute"]

IsNoRoute(found) == found.tag = "NoRoute"

RECURSIVE ScopesLoop(_, _, _, _, _)
\* the inner loop of router_handler over the scopes of one prefix
ScopesLoop(scopes, pipelines, path, c, h) ==
    IF scopes = << >> THEN NoRoute
    ELSE IF MapHas(RouteTable(scopes[1], c.method), path)
         THEN RunRoute(scopes[1], pipelines, path, c, h)
    ELSE ScopesLoop(Tail(scopes), pipelines, path, c, h)

RECURSIVE PrefixLoop_prefix_at_start(_, _, _, _)
\* an outer loop that takes a scope only when the request path begins
\* with its prefix
PrefixLoop_prefix_at_start(order, r, c, h) ==
    IF order = << >> THEN NoRoute
    ELSE
        LET scope_id   == order[1]
            path_start == FindStr(c.request_path, scope_id)
            found      == ScopesLoop(r.scopes[scope_id], r.pipelines,
                                     SubstrFrom(c.request_path, path_start), c, h)
        IN  IF path_start # 0 THEN PrefixLoop_prefix_at_start(Tail(order), r, c, h)
            ELSE IF IsNoRoute(found) THEN PrefixLoop_prefix_at_start(Tail(order), r, c, h)
            ELSE found

RECURSIVE PrefixLoop_path_after_prefix(_, _, _, _)
\* an outer loop that looks up the part of the request path that follows
\* the prefix
PrefixLoop_path_after_prefix(order, r, c, h) ==
    IF order = << >> THEN NoRoute
    ELSE
        LET scope_id   == order[1]
            path_start == FindStr(c.request_path, scope_id)
            found      == ScopesLoop(r.scopes[scope_id], r.pipelines,
                                     SubstrFrom(c.request_path, path_start + Len(scope_id)),
                                     c, h)
        IN  IF path_start = NPos THEN PrefixLoop_path_after_prefix(Tail(order), r, c, h)
            ELSE IF IsNoRoute(found) THEN PrefixLoop_path_after_prefix(Tail(order), r, c, h)
            ELSE found

RECURSIVE PrefixLoop(_, _, _, _)
\* the outer loop of router_handler over the prefixes, in iteration order
PrefixLoop(order, r, c, h) ==
    IF order = << >> THEN NoRoute
    ELSE
        LET scope_id   == order[1]
            path_start == FindStr(c.request_path, scope_id)
            found      == ScopesLoop(r.scopes[scope_id], r.pipelines,
                                     SubstrFrom(c.request_path, path_start), c, h)
        IN  IF path_start = NPos THEN PrefixLoop(Tail(order), r, c, h)
            ELSE IF IsNoRoute(found) THEN PrefixLoop(Tail(order), r, c, h)
            ELSE found

\* begin()..end() of router.scopes: the prefixes it holds, in hash order
ScopeKeys(r, order) == SelectSeq(order, LAMBDA p : MapHas(r.scopes, p))

\* router_handler (Router::handler): order is the hash order of the prefixes
router_handler(r, order, c, h) ==
    LET found == PrefixLoop(ScopeKeys(r, order), r, c, h)
    IN  IF IsNoRoute(found) THEN Ret("Conn", c, h) ELSE found

\* a default-constructed Scope
Scope == [pipeline |-> None, get |-> EmptyMap, post |-> EmptyMap,
          put |-> EmptyMap, del |-> EmptyMap]

\* Router::pipeline: immer::map::insert replaces the pipeline of that name
RouterPipeline(r, name, plugs) ==
    [r EXCEPT !.pipelines = MapSet(r.pipelines, name, plugs)]

\* Router::scope with functional::multimap::insert: the scope is pushed
\* at the back of the vector of its prefix
RouterScope(r, name, scope) ==
    [r EXCEPT !.scopes =
        MapSet(r.scopes, name,
               IF MapHas(r.scopes, name) THEN Append(r.scopes[name], scope)
               ELSE << scope >>)]

(***************************************************************************)
(* The inputs of the Conn state machine.                                   *)
(***************************************************************************)
\* the parsed requests the transport adapter hands to the constructor
Requests ==
    { [ method  |-> "GET",
        target  |-> <<"/", "x", "?", "a", "=", "1">>,
        path    |-> <<"/", "x">>,
        version |-> "HTTP/1.1",
        headers |-> Headers(<< <<"Host", <<"h">> >>,
                               <<"cookie", <<"s", "=", "1">> >>,
                               <<"x", <<"1">> >> >>),
        body    |-> << >> ] }

\* the value an uninitialised session_info holds; no code reads it
Indeterminate == "indeterminate"

\* the router before any pipeline or scope is registered
EmptyRouter == [pipelines |-> EmptyMap, scopes |-> EmptyMap]

\* the scope prefixes of the model
Prefixes == { <<"/">>, <<"/", "a">> }

\* the threads that run the io_service
Threads == {1, 2}

\* Server::Server: an empty registry, a free mutex, no handler running
Server ==
    [ connections |-> EmptyMap,
      conn_lock   |-> 0,
      uuids       |-> 0,
      started     |-> 0,
      crashed     |-> FALSE,
      th          |-> [t \in Threads |-> [pc |-> "idle"]] ]

\* the record of a call
Call(op, src, args, tag, res) ==
    [op |-> op, src |-> src, args |-> args, tag |-> tag, res |-> res]

\* the transport adapter builds the first Conn of a request around a
\* fresh CookieSession (address 1); the constructor keeps a shared_clone
\* of it (address 2)
Init ==
    /\ heap = << EmptyMap, EmptyMap >>
    /\ \E req \in Requests :
          conns = << NewConn(req, 1, 2, Indeterminate) >>
    /\ last = Call("Conn", 0, << >>, "Conn", 1)
    /\ router = EmptyRouter
    /\ iterOrder = << >>
    /\ registered = << >>
    /\ server = Server

\* a call of a Conn operation on conns[i] that yielded r: the Conn it
\* returns (or carries in its Result) joins the store
Emit(op, i, args, r) ==
    /\ Len(conns) < MaxConns
    /\ conns' = IF r.tag = "Raise" THEN conns ELSE Append(conns, r.conn)
    /\ heap' = r.heap
    /\ last' = Call(op, i, args, r.tag, IF r.tag = "Raise" THEN 0 ELSE Len(conns) + 1)
    /\ UNCHANGED <<router, iterOrder, registered, server>>

HeaderArgs == { Headers(<< <<"x", <<"w">> >> >>),
                Headers(<< <<"Host", <<"g">> >>, <<"X", <<"w">> >>, <<"x", <<"u">> >> >>) }

QueryOpts == { EmptyMap, [length |-> <<"2">>] }

CookieOpts == { EmptyMap, [sign |-> <<"true">>, encrypt |-> <<"true">>] }

HeaderValues == { <<"v">>, <<"a", "\n", "b">> }

Assign ==
    \E i \in 1..Len(conns) :
        Emit("assign", i, <<"a", 1>>, assign(conns[i], "a", 1, heap))

MergeAssigns ==
    \E i \in 1..Len(conns) :
        LET m == [a |-> 2, b |-> 1]
        IN  Emit("merge_assigns", i, <<m>>, merge_assigns(conns[i], m, heap))

Chunk ==
    \E i \in 1..Len(conns), chk \in {<< >>, <<"c">>} :
        Emit("chunk", i, <<chk>>, chunk(conns[i], chk, heap))

PutSession ==
    \E i \in 1..Len(conns) :
        Emit("put_session", i, <<"sk", "v1">>, put_session(conns[i], "sk", "v1", heap))

DeleteSession ==
    \E i \in 1..Len(conns) :
        Emit("delete_session", i, <<"sk">>, delete_session(conns[i], "sk", heap))

ClearSession ==
    \E i \in 1..Len(conns) :
        Emit("clear_session", i, << >>, clear_session(conns[i], heap))

ConfigureSession ==
    \E i \in 1..Len(conns), opt \in {"WRITE", "DROP"} :
        Emit("configure_session", i, <<opt>>, configure_session(conns[i], opt, heap))

PutReqHeader ==
    \E i \in 1..Len(conns), key \in {"host", "x"} :
        Emit("put_req_header", i, <<key, <<"v">> >>,
             put_req_header(conns[i], key, <<"v">>, heap))

UpdateReqHeader ==
    \E i \in 1..Len(conns), ub \in EmptyHandleOutcomes :
        Emit("update_req_header", i, <<"x", <<"i">>, "bang">>,
             update_req_header(conns[i], "x", <<"i">>, "bang", ub, heap))

PrependReqHeaders ==
    \E i \in 1..Len(conns), hs \in HeaderArgs :
        Emit("prepend_req_headers", i, <<hs>>, prepend_req_headers(conns[i], hs, heap))

MergeReqHeaders ==
    \E i \in 1..Len(conns), hs \in HeaderArgs :
        Emit("merge_req_headers", i, <<hs>>, merge_req_headers(conns[i], hs, heap))

DeleteReqHeader ==
    \E i \in 1..Len(conns) :
        Emit("delete_req_header", i, <<"x">>, delete_req_header(conns[i], "x", heap))

FetchQueryParams ==
    \E i \in 1..Len(conns), opts \in QueryOpts :
        Emit("fetch_query_params", i, <<opts>>, fetch_query_params(conns[i], opts, heap))

FetchCookies ==
    \E i \in 1..Len(conns) :
        Emit("fetch_cookies", i, <<{}>>, fetch_cookies(conns[i], {}, heap))

DeleteRespCookie ==
    \E i \in 1..Len(conns) :
        Emit("delete_resp_cookie", i, << <<"k">>, EmptyMap >>,
             delete_resp_cookie(conns[i], <<"k">>, EmptyMap, heap))

PutRespCookie ==
    \E i \in 1..Len(conns), opts \in CookieOpts :
        Emit("put_resp_cookie", i, << <<"k">>, <<"v">>, opts >>,
             put_resp_cookie(conns[i], <<"k">>, <<"v">>, opts, heap))

MergeRespHeaders ==
    \E i \in 1..Len(conns), hs \in HeaderArgs :
        Emit("merge_resp_headers", i, <<hs>>, merge_resp_headers(conns[i], hs, heap))

PrependRespHeader ==
    \E i \in 1..Len(conns), hs \in HeaderArgs :
        Emit("prepend_resp_header", i, <<hs>>, prepend_resp_header(conns[i], hs, heap))

PutRespHeader ==
    \E i \in 1..Len(conns), key \in {"x", "Upgrade"}, value \in HeaderValues :
        Emit("put_resp_header", i, <<key, value>>,
             put_resp_header(conns[i], key, value, heap))

DeleteRespHeader ==
    \E i \in 1..Len(conns) :
        Emit("delete_resp_header", i, <<"x">>, delete_resp_header(conns[i], "x", heap))

UpdateRespHeader ==
    \E i \in 1..Len(conns), ub \in EmptyHandleOutcomes :
        Emit("update_resp_header", i, <<"x", <<"i">>, "bang">>,
             update_resp_header(conns[i], "x", <<"i">>, "bang", ub, heap))

Halt ==
    \E i \in 1..Len(conns) :
        Emit("halt", i, << >>, halt(conns[i], heap))

PutRespContentType ==
    \E i \in 1..Len(conns) :
        Emit("put_resp_content_type", i, << <<"text/plain">>, <<"utf-8">> >>,
             put_resp_content_type(conns[i], <<"text/plain">>, <<"utf-8">>, heap))

PutStatus ==
    \E i \in 1..Len(conns), status \in {200, 404} :
        Emit("put_status", i, <<status>>, put_status(conns[i], status, heap))

ReadBody ==
    \E i \in 1..Len(conns) :
        Emit("read_body", i, <<EmptyMap>>, read_body(conns[i], EmptyMap, heap))

RegisterBeforeSend ==
    \E i \in 1..Len(conns) :
        Emit("register_before_send", i, <<"cb1">>,
             register_before_send(conns[i], "cb1", heap))

Resp ==
    \E i \in 1..Len(conns) :
        Emit("resp", i, <<201, <<"b">> >>, resp(conns[i], 201, <<"b">>, heap))

UpgradeConn ==
    \E i \in 1..Len(conns) :
        Emit("upgrade_conn", i, << <<"websocket">> >>,
             upgrade_conn(conns[i], <<"websocket">>, heap))

\* the state member is public: the transport adapter (and the tests)
\* copy a Conn and assign its state
SetState ==
    \E i \in 1..Len(conns), st \in ConnState :
        Emit("set_state", i, <<st>>, Ret("Conn", [conns[i] EXCEPT !.state = st], heap))

ConnOp ==
    \/ Assign \/ MergeAssigns \/ Chunk
    \/ PutSession \/ DeleteSession \/ ClearSession \/ ConfigureSession
    \/ PutReqHeader \/ UpdateReqHeader \/ PrependReqHeaders \/ MergeReqHeaders
    \/ DeleteReqHeader
    \/ FetchQueryParams \/ FetchCookies \/ DeleteRespCookie \/ PutRespCookie
    \/ MergeRespHeaders \/ PrependRespHeader \/ PutRespHeader \/ DeleteRespHeader
    \/ UpdateRespHeader
    \/ Halt \/ PutRespContentType \/ PutStatus \/ ReadBody
    \/ RegisterBeforeSend \/ Resp \/ UpgradeConn

Next == ConnOp \/ SetState

Spec == Init /\ [][Next]_vars

(***************************************************************************)
(* The router state machine: the builder registers pipelines and scopes,   *)
(* the transport adapter builds the inbound Conn and dispatches it.        *)
(***************************************************************************)
RouterRequest(method, path) ==
    [ method  |-> method,
      target  |-> path,
      path    |-> path,
      version |-> "HTTP/1.1",
      headers |-> Headers(<< <<"cookie", <<"s", "=", "1">> >> >>),
      body    |-> << >> ]

RouterRequests ==
    { RouterRequest("GET", <<"/", "a">>),
      RouterRequest("GET", <<"/", "b", "/", "a">>),
      RouterRequest("GET", <<"/", "b">>),
      RouterRequest("GET", <<"/", "a", "/", "b">>),
      RouterRequest("POST", <<"/", "a">>),
      RouterRequest("PUT", <<"/", "a">>),
      RouterRequest("DELETE", <<"/", "a">>),
      RouterRequest("PATCH", <<"/", "a">>) }

\* the pipelines the builder registers: a name and its plugs
PipelineDefs ==
    { <<"p1", <<"reg_a", "reg_b">> >>,
      <<"p1", <<"fetch_cookies", "fetch_query_params", "halt">> >>,
      <<"p2", <<"reg_c", "assign_key_test">> >> }

\* the scopes the builder registers, as the scope callback builds them
\* with PIPE_THROUGH, GET, POST, PUT and DEL
ScopeDefs ==
    { [Scope EXCEPT !.pipeline = Some(<<"p1", "p2">>),
                    !.get = (<<"/", "a">> :> "text"),
                    !.put = (<<"/", "a">> :> nullptr),
                    !.del = (<<"/", "a">> :> "redirect")],
      [Scope EXCEPT !.pipeline = Some(<<"p2">>),
                    !.get = (<<"/", "a">> :> nullptr) @@ (<<"/", "b">> :> "text"),
                    !.post = (<<"/", "a">> :> "redirect")],
      [Scope EXCEPT !.get = (<<"/", "a">> :> "text")] }

\* the orders in which the hash of a build may put the prefixes
HashOrders ==
    { o \in [1..Cardinality(Prefixes) -> Prefixes] :
        \A i, j \in DOMAIN o : i # j => o[i] # o[j] }

InitRouter ==
    /\ heap = << EmptyMap, EmptyMap >>
    /\ \E req \in RouterRequests :
          conns = << NewConn(req, 1, 2, Indeterminate) >>
    /\ last = Call("Conn", 0, << >>, "Conn", 1)
    /\ router = EmptyRouter
    /\ iterOrder \in HashOrders
    /\ registered = << >>
    /\ server = Server

\* Router::pipeline
Pipeline ==
    \E def \in PipelineDefs :
        /\ router' = RouterPipeline(router, def[1], def[2])
        /\ last' = Call("Router::pipeline", 0, << >>, "Router", 0)
        /\ UNCHANGED <<conns, heap, iterOrder, registered, server>>

\* Router::scope
ScopeStep ==
    \E name \in Prefixes, scope \in ScopeDefs :
        /\ Len(registered) < MaxScopes
        /\ router' = RouterScope(router, name, scope)
        /\ registered' = Append(registered, name)
        /\ last' = Call("Router::scope", 0, << >>, "Router", 0)
        /\ UNCHANGED <<conns, heap, iterOrder, server>>

\* the transport adapter assigns the state of the Conn it has just built
\* (the message handler marks it UPGRADED before dispatching)
AdapterState ==
    \E st \in {"Sent", "UPGRADED"} :
        /\ conns[1].state = "UNSET"
        /\ conns' = << [conns[1] EXCEPT !.state = st] >>
        /\ last' = Call("state", 0, <<st>>, "Conn", 1)
        /\ UNCHANGED <<heap, router, iterOrder, registered, server>>

\* the transport adapter dispatches the inbound Conn, conns[1], and keeps
\* the Conn the router returns, conns[2], until the next dispatch
Dispatch ==
    LET r == router_handler(router, iterOrder, conns[1], heap)
    IN  /\ conns' = IF r.tag = "Raise" THEN << conns[1] >> ELSE << conns[1], r.conn >>
        /\ heap' = r.heap
        /\ last' = Call("router_handler", 1, << >>, r.tag, IF r.tag = "Raise" THEN 0 ELSE 2)
        /\ UNCHANGED <<router, iterOrder, registered, server>>

NextRouter == Pipeline \/ ScopeStep \/ AdapterState \/ Dispatch

SpecRouter == InitRouter /\ [][NextRouter]_vars

(***************************************************************************)
(* Properties of the Conn operations, read off the last call: In is the    *)
(* Conn the call was given, Out the Conn it returned.                      *)
(***************************************************************************)
In == conns[last.src]

Out == conns[last.res]

\* what can be observed of a Conn: its fields, with the contents of the
\* sessions in place of their addresses
Observe(c, h) ==
    [c EXCEPT !.session = h[c.session], !.session_copy = h[c.session_copy]]

\* the fields of Out that differ from In's
Changed == { f \in DOMAIN In : Out[f] # In[f] }

\* the header, status and cookie-registration mutators
Mutators ==
    { "put_req_header", "merge_req_headers", "prepend_req_headers",
      "update_req_header", "delete_req_header",
      "put_resp_header", "merge_resp_headers", "prepend_resp_header",
      "update_resp_header", "delete_resp_header",
      "put_status", "put_resp_cookie", "delete_resp_cookie" }

\* the operations of the Conn API the model calls
ConnApi ==
    Mutators \cup
    { "assign", "merge_assigns", "chunk", "put_session", "delete_session",
      "clear_session", "configure_session", "fetch_query_params",
      "fetch_cookies", "halt", "put_resp_content_type", "read_body",
      "register_before_send", "resp", "upgrade_conn" }

\* C1: on a Conn whose state is Sent, CHUNKED or UPGRADED every header,
\* status and cookie-registration mutator returns Err and the Conn it
\* carries is the input (nothing staged); on a Sent Conn resp and
\* register_before_send raise.
C1_StateGuardUniform ==
    /\ (last.op \in Mutators /\ StateGuard(In)) =>
            (last.tag = "Err" /\ Out = In)
    /\ (last.op \in {"resp", "register_before_send"} /\ In.state = "Sent") =>
            last.tag = "Raise"

\* put_resp_cookie was called on a Sent Conn and staged the cookie
C1_CookieStagedOnSent ==
    /\ last.op = "put_resp_cookie"
    /\ In.state = "Sent"
    /\ last.tag = "Ok"
    /\ MapHas(Out.resp_cookies, <<"k">>)
    /\ ~MapHas(In.resp_cookies, <<"k">>)

\* C2: an operation of the Conn API called on a Sent Conn returns no Conn
\* whose response headers, status, response body, session configuration
\* or state differ from the input's.
C2_SentTerminal ==
    (last.op \in ConnApi /\ In.state = "Sent" /\ last.tag # "Raise") =>
        Changed \cap {"resp_headers", "status", "resp_body", "session_info", "state"} = {}

\* upgrade_conn was called on a Sent Conn and returned an UPGRADED one
C2_UpgradedAfterSent ==
    /\ last.op = "upgrade_conn"
    /\ In.state = "Sent"
    /\ last.tag = "Conn"
    /\ Out.state = "UPGRADED"
    /\ Out.status = Some(426)

\* C3: a call of any operation, whether it succeeds, returns Err or
\* raises, leaves every observable field of every Conn that exists (the
\* Conn it is applied to, the Conns derived from it and the Conns they
\* were derived from) as it was, session contents included.
C3_Persistence ==
    [][\A i \in 1..Len(conns) :
          /\ i <= Len(conns')
          /\ Observe(conns'[i], heap') = Observe(conns[i], heap)]_vars

\* put_session was applied to the first Conn after another Conn had been
\* derived from it: only the Conn returned sees the value
C3_DerivedThenPut ==
    /\ Len(conns) = 3
    /\ last.op = "put_session"
    /\ last.src = 1
    /\ get_session(conns[3], "sk", heap) = Some("v1")
    /\ get_session(conns[1], "sk", heap) = None
    /\ get_session(conns[2], "sk", heap) = None
    /\ conns[2] # conns[1]

C9_UpgradeConn ==
    (last.op = "upgrade_conn" /\ In.state \in Unsent) =>
        /\ last.tag = "Conn"
        /\ Out.state = "UPGRADED"
        /\ Out.status = Some(426)
        /\ get_header_value(Out.resp_headers, "Upgrade") = last.args[1]
        /\ get_header_value(Out.resp_headers, "Connection") = <<"Upgrade">>
        /\ HdrErase(HdrErase(Out.resp_headers, "Upgrade"), "Connection")
             = HdrErase(HdrErase(In.resp_headers, "Upgrade"), "Connection")
        /\ Changed \subseteq {"state", "status", "resp_headers"}

\* upgrade_conn was called on an UNSET Conn that held an Upgrade response
\* header: the header still reads as the value it held
C9_StaleUpgradeHeader ==
    /\ last.op = "upgrade_conn"
    /\ In.state = "UNSET"
    /\ get_resp_header(In, "Upgrade") = << <<"v">> >>
    /\ get_resp_header(Out, "Upgrade") = << <<"v">>, <<"websocket">> >>
    /\ get_header_value(Out.resp_headers, "Upgrade") # last.args[1]

\* the operations C10 lists
ResultMutators ==
    { "put_req_header", "merge_req_headers", "prepend_req_headers",
      "update_req_header", "put_resp_header", "merge_resp_headers",
      "prepend_resp_header", "update_resp_header", "delete_resp_header",
      "put_status" }

\* C10: each of put/merge/prepend/update of request headers,
\* put/merge/prepend/update/delete of response headers and put_status
\* returns Err exactly when the state is Sent, CHUNKED or UPGRADED
\* (put_resp_header also when the value holds a CR or LF) and Ok in every
\* other state; put_status on Ok sets status and changes nothing else.
C10_ErrExactlyWhenGuarded ==
    last.op \in ResultMutators =>
        /\ last.tag =
             IF StateGuard(In) \/ (last.op = "put_resp_header" /\ HasLineBreak(last.args[2]))
             THEN "Err" ELSE "Ok"
        /\ (last.op = "put_status" /\ last.tag = "Ok") =>
              (Out.status = Some(last.args[1]) /\ Changed \subseteq {"status"})

\* update_resp_header was called in a permitted state on a key the Conn
\* does not hold and returned neither Ok nor Err
C10_UpdateAbsentKey ==
    /\ last.op = "update_resp_header"
    /\ In.state = "UNSET"
    /\ get_resp_header(In, "x") = << >>
    /\ last.tag = "Raise"

(***************************************************************************)
(* Properties of the router, read off the last dispatch: conns[1] is the   *)
(* inbound Conn, conns[2] the Conn the router returned.                    *)
(***************************************************************************)
Dispatched == last.op = "router_handler"

\* the path looked up in the scopes of prefix pfx
LookupPath(pfx, c) == SubstrFrom(c.request_path, FindStr(c.request_path, pfx))

\* scope, registered under pfx, holds a route for the Conn's method and
\* lookup path
Matches(pfx, scope, c) ==
    /\ FindStr(c.request_path, pfx) # NPos
    /\ MapHas(RouteTable(scope, c.method), LookupPath(pfx, c))

\* the registered scopes that match, as <<prefix, place under the prefix>>
Matching(c) ==
    { m \in Prefixes \X (1..MaxScopes + 1) :
        /\ MapHas(router.scopes, m[1])
        /\ m[2] <= Len(router.scopes[m[1]])
        /\ Matches(m[1], router.scopes[m[1]][m[2]], c) }

\* the outcome r is the one the last dispatch had
SameOutcome(r) ==
    /\ r.tag = last.tag
    /\ r.tag # "Raise" => r.conn = conns[last.res]

\* H(P(conn)) for the route of scope m, P(conn) when the handler is null;
\* where P or H raises, so does the composition
Composed(m, c, h) ==
    LET scope   == router.scopes[m[1]][m[2]]
        handler == RouteTable(scope, c.method)[LookupPath(m[1], c)]
        P       == ScopePipeline(scope, router.pipelines, c, h)
    IN  IF handler = nullptr \/ P.tag = "Raise" THEN P
        ELSE RunHandler(handler, P.conn, P.heap)

\* C4: when some scope's table for the Conn's method holds the lookup path,
\* dispatch yields H(P(conn)) for such a scope, P being the scope's
\* composed pipeline and H its handler, and P(conn) when the handler is
\* null; when no scope's table holds it (any method other than get, post,
\* put and delete included) dispatch returns the inbound Conn unchanged.
C4_Dispatch ==
    Dispatched =>
        IF Matching(conns[1]) = {}
        THEN last.tag = "Conn" /\ conns[last.res] = conns[1]
        ELSE \E m \in Matching(conns[1]) : SameOutcome(Composed(m, conns[1], heap))

\* a GET was dispatched to a scope piped through p1 and p2 with the text
\* handler on the route: the result went through the plugs and the handler
C4_PipedThenHandled ==
    /\ Dispatched
    /\ last.tag = "Conn"
    /\ conns[1].method = "get"
    /\ conns[2].callbacks_before_send = <<"a", "b", "c">>
    /\ MapHas(conns[2].assigns, "key_test")
    /\ conns[2].resp_body = Some(<<"hello">>)
    /\ conns[2].state = "SET"

RECURSIVE PlugsOf(_)
\* the plugs of the pipelines named, in the order the names are written
\* and, inside a pipeline, in the order they were registered
PlugsOf(p_lines) ==
    IF p_lines = << >> THEN << >>
    ELSE (IF MapHas(router.pipelines, p_lines[1]) THEN router.pipelines[p_lines[1]]
          ELSE << >>) \o PlugsOf(Tail(p_lines))

\* the callback a plug registers
CallbackOf(plug) ==
    CASE plug = "reg_a" -> "a"
      [] plug = "reg_b" -> "b"
      [] plug = "reg_c" -> "c"

\* the callbacks the plugs register, in the order of the plugs
Registrations(plugs) ==
    LET regs == SelectSeq(plugs, LAMBDA p : p \in {"reg_a", "reg_b", "reg_c"})
    IN  [i \in 1..Len(regs) |-> CallbackOf(regs[i])]

\* the Conn out bears the mark of each plug once, and the registrations
\* in the order of the plugs
ThreadedThrough(plugs, out) ==
    /\ out.callbacks_before_send = Registrations(plugs)
    /\ out.halted = (\E i \in 1..Len(plugs) : plugs[i] = "halt")
    /\ MapHas(out.assigns, "key_test") = (\E i \in 1..Len(plugs) : plugs[i] = "assign_key_test")
    /\ (out.req_cookies # None) = (\E i \in 1..Len(plugs) : plugs[i] = "fetch_cookies")
    /\ (out.query_params # None) = (\E i \in 1..Len(plugs) : plugs[i] = "fetch_query_params")

\* C5: a dispatch that returns a Conn has threaded it through every plug
\* of the scope's pipelines once: the plugs of the pipeline named first
\* before those of the pipeline named second, the plugs of a pipeline in
\* their registration order.
C5_PipelineOrder ==
    (Dispatched /\ last.tag = "Conn" /\ Matching(conns[1]) # {}) =>
        \E m \in Matching(conns[1]) :
            /\ router.scopes[m[1]][m[2]].pipeline # None
            /\ ThreadedThrough(PlugsOf(router.scopes[m[1]][m[2]].pipeline[1]), conns[2])

\* a route with the null handler was dispatched through p1 = [reg_a, reg_b]
\* and p2 = [reg_c, assign]: the callbacks are a, b, c
C5_ThreePlugsInOrder ==
    /\ Dispatched
    /\ last.tag = "Conn"
    /\ conns[1].method = "put"
    /\ conns[2].callbacks_before_send = <<"a", "b", "c">>
    /\ MapHas(conns[2].assigns, "key_test")
    /\ conns[2].resp_body = None

\* the k-th scope registered, as <<prefix, place under the prefix>>
Registration(k) ==
    << registered[k], Cardinality({ j \in 1..k : registered[j] = registered[k] }) >>

\* the registrations whose scope matches the Conn
MatchingRegistrations(c) ==
    { k \in 1..Len(registered) : Registration(k) \in Matching(c) }

\* the first of them in registration order
FirstMatching(c) ==
    CHOOSE k \in MatchingRegistrations(c) : \A j \in MatchingRegistrations(c) : k <= j

\* C6: dispatch examines the scopes in registration order, across
\* prefixes and under one prefix, and executes the first scope in that
\* order that has a matching route, and no other.
C6_RegistrationOrder ==
    (Dispatched /\ MatchingRegistrations(conns[1]) # {}) =>
        SameOutcome(Composed(Registration(FirstMatching(conns[1])), conns[1], heap))

\* two scopes under different prefixes match the request and the router
\* ran the one registered second
C6_LaterScopeRan ==
    /\ Dispatched
    /\ Len(registered) = 2
    /\ registered[1] # registered[2]
    /\ MatchingRegistrations(conns[1]) = {1, 2}
    /\ SameOutcome(Composed(Registration(2), conns[1], heap))
    /\ ~SameOutcome(Composed(Registration(1), conns[1], heap))

\* C7: for every router the builder accepts and every inbound Conn,
\* dispatch returns a Conn and raises nothing; a request that matches no
\* route gets the inbound Conn back.
C7_NeverThrows ==
    Dispatched =>
        /\ last.tag = "Conn"
        /\ Matching(conns[1]) = {} => conns[2] = conns[1]

\* an UNSET Conn was dispatched to a route of a scope that was registered
\* without PIPE_THROUGH, and the dispatch raised
C7_EmptyPipelineRaised ==
    /\ Dispatched
    /\ last.tag = "Raise"
    /\ conns[1].state = "UNSET"
    /\ \A m \in Matching(conns[1]) : router.scopes[m[1]][m[2]].pipeline = None
    /\ Matching(conns[1]) # {}

(***************************************************************************)
(* Properties of the Result-returning operations.                          *)
(***************************************************************************)
\* the operations that return a Result<Conn>
ResultOps ==
    { "chunk", "configure_session", "put_req_header", "update_req_header",
      "prepend_req_headers", "merge_req_headers", "delete_req_header",
      "put_resp_cookie", "merge_resp_headers", "prepend_resp_header",
      "put_resp_header", "delete_resp_header", "update_resp_header",
      "put_status", "read_body" }

\* C11: whenever an operation that returns a Result returns Err (a guarded
\* header or status mutator, put_resp_header on a CR/LF value,
\* put_resp_cookie with sign and encrypt, configure_session, chunk), the
\* Conn the Result carries equals the input Conn in every field.
C11_ErrPayload ==
    (last.op \in ResultOps /\ last.tag = "Err") =>
        (Out = In /\ Observe(Out, heap) = Observe(In, heap))

\* put_resp_header refused a value with a line feed on an UNSET Conn that
\* already held response headers, and handed the Conn back
C11_ErrOnLineBreak ==
    /\ last.op = "put_resp_header"
    /\ last.tag = "Err"
    /\ In.state = "UNSET"
    /\ HasLineBreak(last.args[2])
    /\ In.resp_headers # << >>
    /\ Out = In

MaxCalls == 3

\* the Set-Cookie line of one staged cookie (it has a "value")
set_cookie(cookie) ==
    cookie["value"]
    \o (IF MapHas(cookie, "path") THEN <<"; Path=">> \o cookie["path"] ELSE <<"; Path=/">>)
    \o (IF MapHas(cookie, "domain") THEN <<"; Domain=">> \o cookie["domain"] ELSE << >>)
    \o (IF MapHas(cookie, "max_age") THEN <<"; Max-Age=">> \o cookie["max_age"] ELSE << >>)
    \o (IF MapHas(cookie, "expires") THEN <<"; Expires=">> \o cookie["expires"] ELSE << >>)
    \o (IF MapHas(cookie, "secure") THEN <<"; Secure">> ELSE << >>)
    \o (IF MapHas(cookie, "httponly") THEN <<"; HttpOnly">> ELSE << >>)
    \o (IF MapHas(cookie, "same_site") THEN <<"; SameSite=">> \o cookie["same_site"] ELSE << >>)

\* the response the http handler serializes from a Conn: the status, the
\* body, the headers, and one Set-Cookie line for each staged cookie that
\* has a "value" (the loop skips the others)
Response(c) ==
    [ status     |-> IF c.status = None THEN 200 ELSE c.status[1],
      body       |-> c.resp_body,
      headers    |-> c.resp_headers,
      set_cookie |-> [k \in {x \in DOMAIN c.resp_cookies : MapHas(c.resp_cookies[x], "value")} |->
                        set_cookie(c.resp_cookies[k])] ]

\* the requests of the cookie and query operations: several cookie
\* headers with a common key, a header named Cookie, query strings with a
\* repeated key, with a pair that has no "=", with a byte that is not
\* UTF-8, a request whose version (the scheme of the Conn) is https,
\* targets with a fragment after and before the "?" and without a query,
\* and cookie headers with blanks, attributes and a repeated name
FetchRequests ==
    { [ method  |-> "GET",
        target  |-> <<"/", "x", "?", "a", "=", "1", "&", "b", "=", "2", "&", "a", "=", "3">>,
        path    |-> <<"/", "x">>,
        version |-> "HTTP/1.1",
        headers |-> Headers(<< <<"Host", <<"h">> >>,
                               <<"cookie", <<"s", "=", "1", ";", "t", "=", "2">> >>,
                               <<"cookie", <<"s", "=", "3", ";", "P", "a", "t", "h", "=", "/">> >> >>),
        body    |-> << >> ],
      [ method  |-> "GET",
        target  |-> <<"/", "x", "?", "a", "=", "1", "&", "b">>,
        path    |-> <<"/", "x">>,
        version |-> "HTTP/1.1",
        headers |-> Headers(<< <<"Host", <<"h">> >>,
                               <<"Cookie", <<"u", "=", "1">> >>,
                               <<"cookie", <<"k", "=", "0">> >> >>),
        body    |-> << >> ],
      [ method  |-> "GET",
        target  |-> <<"/", "x", "?", "a", "=", InvalidByte>>,
        path    |-> <<"/", "x">>,
        version |-> "https",
        headers |-> Headers(<< <<"Host", <<"h">> >> >>),
        body    |-> << >> ],
      [ method  |-> "GET",
        target  |-> <<"/", "x", "#", "f", "?", "a", "=", "1">>,
        path    |-> <<"/", "x">>,
        version |-> "HTTP/1.1",
        headers |-> Headers(<< <<"Host", <<"h">> >>,
                               <<"cookie", <<" ", "a", " ", "=", " ", "1", " ", ";",
                                             "S", "e", "c", "u", "r", "e", ";",
                                             " ", "a", "=", "2", ";",
                                             "P", "a", "t", "h", "=", "/", ";",
                                             "b", ";", "=", "z">> >> >>),
        body    |-> << >> ],
      [ method  |-> "GET",
        target  |-> <<"/", "x", "?", "a", "=", "1", "#", "f">>,
        path    |-> <<"/", "x">>,
        version |-> "HTTP/1.1",
        headers |-> Headers(<< <<"Host", <<"h">> >> >>),
        body    |-> << >> ],
      [ method  |-> "GET",
        target  |-> <<"/", "x">>,
        path    |-> <<"/", "x">>,
        version |-> "HTTP/1.1",
        headers |-> Headers(<< <<"Host", <<"h">> >>,
                               <<"cookie", <<"b", ";", "D", "=", "1">> >> >>),
        body    |-> << >> ] }

FetchQueryOpts ==
    { EmptyMap,
      [length |-> <<"2">>],
      [validate_utf8 |-> <<"f", "a", "l", "s", "e">>],
      [length |-> <<"f", "a", "l", "s", "e">>] }

PutCookieArgs ==
    { << <<"k">>, <<"v">>, EmptyMap >>,
      << <<"k">>, <<"v">>, [sign |-> <<"true">>, path |-> <<"/", "p">>] >>,
      << <<"k">>, <<"v">>, [sign |-> <<"true">>, encrypt |-> <<"true">>] >>,
      << <<"k">>, <<"v">>, [max_age |-> <<"s", "o", "o", "n">>] >>,
      << <<"s">>, <<"w">>, [max_age |-> <<"1", "0">>] >> }

DeleteCookieArgs ==
    { << <<"k">>, EmptyMap >>,
      << <<"k">>, [path |-> <<"/", "p">>, max_age |-> <<"1", "0">>] >>,
      << <<"s">>, EmptyMap >> }

InitFetch ==
    /\ heap = << EmptyMap, EmptyMap >>
    /\ \E req \in FetchRequests :
          conns = << NewConn(req, 1, 2, Indeterminate) >>
    /\ last = Call("Conn", 0, << >>, "Conn", 1)
    /\ router = EmptyRouter
    /\ iterOrder = << >>
    /\ registered = << >>
    /\ server = Server

\* the next operation of the chain, on the Conn the one before returned
Then(op, args, r) ==
    /\ Len(conns) <= MaxCalls
    /\ conns' = IF r.tag = "Raise" THEN conns ELSE Append(conns, r.conn)
    /\ heap' = r.heap
    /\ last' = Call(op, Len(conns), args, r.tag,
                    IF r.tag = "Raise" THEN 0 ELSE Len(conns) + 1)
    /\ UNCHANGED <<router, iterOrder, registered, server>>

ThenFetchCookies ==
    Then("fetch_cookies", <<{}>>, fetch_cookies(conns[Len(conns)], {}, heap))

ThenFetchQueryParams ==
    \E opts \in FetchQueryOpts :
        Then("fetch_query_params", <<opts>>,
             fetch_query_params(conns[Len(conns)], opts, heap))

ThenPutRespCookie ==
    \E a \in PutCookieArgs :
        Then("put_resp_cookie", a,
             put_resp_cookie(conns[Len(conns)], a[1], a[2], a[3], heap))

ThenDeleteRespCookie ==
    \E a \in DeleteCookieArgs :
        Then("delete_resp_cookie", a,
             delete_resp_cookie(conns[Len(conns)], a[1], a[2], heap))

\* the http handler serializes the response from the Conn it holds
Respond ==
    /\ last.tag # "Response"
    /\ last' = Call("set_http_handler", Len(conns), << Response(conns[Len(conns)]) >>,
                    "Response", Len(conns))
    /\ UNCHANGED <<conns, heap, router, iterOrder, registered, server>>

NextFetch ==
    \/ ThenFetchCookies \/ ThenFetchQueryParams
    \/ ThenPutRespCookie \/ ThenDeleteRespCookie
    \/ Respond

SpecFetch == InitFetch /\ [][NextFetch]_vars

(***************************************************************************)
(* Properties of the cookie and query operations.                          *)
(***************************************************************************)
\* C12: fetch_cookies and fetch_query_params are idempotent: for every
\* Conn and every options value, applying the operation to its own result
\* gives that result again in every field, also when the first
\* fetch_query_params ended with status 414; and a fetch on a Conn
\* already fetched changes no field.
C12_IdempotentFetch ==
    /\ \A i \in 1..Len(conns) :
          LET once == fetch_cookies(conns[i], {}, heap)
          IN  fetch_cookies(once.conn, {}, once.heap).conn = once.conn
    /\ \A i \in 1..Len(conns), opts \in FetchQueryOpts :
          LET once == fetch_query_params(conns[i], opts, heap)
          IN  once.tag # "Raise" =>
                 fetch_query_params(once.conn, opts, once.heap).conn = once.conn
    /\ (last.op = "fetch_cookies" /\ In.req_cookies # None) => Out = In
    /\ (last.op = "fetch_query_params" /\ last.tag # "Raise" /\ In.query_params # None)
          => Out = In
    /\ (last.op = "fetch_query_params" /\ last.tag # "Raise" /\ In.status = Some(414)
           /\ Len(In.query_string) > 2 /\ last.args[1] = [length |-> <<"2">>])
          => Out = In

\* fetch_query_params with length 2 was applied to the Conn a first
\* fetch_query_params had answered with 414, and gave that Conn again
C12_SecondFetchAfter414 ==
    /\ last.op = "fetch_query_params"
    /\ last.args[1] = [length |-> <<"2">>]
    /\ last.src >= 2
    /\ conns[last.src - 1].status = None
    /\ In.status = Some(414)
    /\ In.query_params = None
    /\ Out = In

\* C13: fetch_cookies applied after put_resp_cookie(c, k, v), whatever
\* came before (cookies already fetched or not), yields visible cookies
\* that hold k with the staged value, and applied after delete_resp_cookie
\* of a staged k yields visible cookies without k.
C13_SetThenRead ==
    last.op = "fetch_cookies" =>
        /\ Out.cookies # None
        /\ \A k \in DOMAIN In.resp_cookies :
              IF MapHas(In.resp_cookies[k], "value")
              THEN /\ MapHas(Out.cookies[1], k)
                   /\ Out.cookies[1][k] = In.resp_cookies[k]["value"]
              ELSE ~MapHas(Out.cookies[1], k)

\* cookies were fetched, then a cookie was staged; fetch_cookies on that
\* Conn returns visible cookies without it
C13_StagedAfterFetchUnseen ==
    /\ last.op = "fetch_cookies"
    /\ In.req_cookies # None
    /\ MapHas(In.resp_cookies, <<"k">>)
    /\ MapHas(In.resp_cookies[<<"k">>], "value")
    /\ ~MapHas(Out.cookies[1], <<"k">>)

\* the values of the request headers whose name is exactly "cookie", in
\* the order the headers are held
CookieHeaders(c) ==
    LET named == SelectSeq(c.req_headers, LAMBDA e : e[1] = "cookie")
    IN  [i \in 1..Len(named) |-> named[i][2]]

\* the merge of ParseCookie over the cookie headers: each key with the
\* value the last header that has it gives
MergedCookies(c) ==
    LET parsed  == [i \in 1..Len(CookieHeaders(c)) |-> ParseCookie(CookieHeaders(c)[i])]
        holders(k) == { i \in 1..Len(parsed) : k \in DOMAIN parsed[i] }
        latest(k)  == CHOOSE i \in holders(k) : \A j \in holders(k) : j <= i
    IN  [k \in UNION { DOMAIN parsed[i] : i \in 1..Len(parsed) } |-> parsed[latest(k)][k]]

\* C14: fetch_cookies on a Conn whose cookies are not yet fetched sets
\* req_cookies to the merge of ParseCookie over every request header
\* named cookie (a later header's key overwrites an earlier one), and
\* cookies to req_cookies overlaid with the staged cookies: a staged
\* entry with a value sets cookies[name] to it, one without removes name;
\* req_cookies holds no staged cookie and no other field changes.
C14_FetchCookies ==
    (last.op = "fetch_cookies" /\ In.req_cookies = None) =>
        /\ last.tag = "Conn"
        /\ Out.req_cookies = Some(MergedCookies(In))
        /\ Out.cookies # None
        /\ \A k \in DOMAIN Out.cookies[1] \cup DOMAIN In.resp_cookies \cup DOMAIN MergedCookies(In) :
              IF k \in DOMAIN In.resp_cookies
              THEN IF MapHas(In.resp_cookies[k], "value")
                   THEN /\ MapHas(Out.cookies[1], k)
                        /\ Out.cookies[1][k] = In.resp_cookies[k]["value"]
                   ELSE ~MapHas(Out.cookies[1], k)
              ELSE /\ MapHas(Out.cookies[1], k)
                   /\ MapHas(MergedCookies(In), k)
                   /\ Out.cookies[1][k] = MergedCookies(In)[k]
        /\ Changed \subseteq {"req_cookies", "cookies"}

\* two cookie headers gave s, the later one s=3; s was staged and then
\* deleted before the first fetch: req_cookies holds s=3 and t=2, the
\* visible cookies hold t alone
C14_LaterHeaderAndDeletion ==
    /\ last.op = "fetch_cookies"
    /\ In.req_cookies = None
    /\ Len(CookieHeaders(In)) = 2
    /\ MapHas(In.resp_cookies, <<"s">>)
    /\ ~MapHas(In.resp_cookies[<<"s">>], "value")
    /\ Out.req_cookies = Some((<<"s">> :> <<"3">>) @@ (<<"t">> :> <<"2">>))
    /\ Out.cookies = Some(<<"t">> :> <<"2">>)

\* the pairs of the query string of a Conn
QueryPairs(c) == Tokenize(c.query_string, "&")

\* the map of every key of the pairs to its value, a later pair of the
\* same key winning
QueryMap(pairs) ==
    LET key(p)     == SubSeq(p, 1, Find(p, "="))
        holders(k) == { i \in 1..Len(pairs) : key(pairs[i]) = k }
        latest(k)  == CHOOSE i \in holders(k) : \A j \in holders(k) : j <= i
    IN  [k \in { key(pairs[i]) : i \in 1..Len(pairs) } |->
            SubstrFrom(pairs[latest(k)], Find(pairs[latest(k)], "=") + 1)]

\* the length option of a call of fetch_query_params that did not raise
LengthOption(opts) ==
    IF MapHas(opts, "length") THEN ParseNumber(opts["length"]) ELSE 1000000

C16_ValidateUtf8 ==
    (/\ last.op = "fetch_query_params"
     /\ last.tag # "Raise"
     /\ In.query_params = None
     /\ Len(In.query_string) <= LengthOption(last.args[1])
     /\ \A i \in 1..Len(QueryPairs(In)) : Find(QueryPairs(In)[i], "=") # NPos
     /\ \E i \in 1..Len(QueryPairs(In)) : Utf8Invalid(QueryPairs(In)[i]))
    => IF MapHas(last.args[1], "validate_utf8")
          /\ last.args[1]["validate_utf8"] = <<"f", "a", "l", "s", "e">>
       THEN /\ Out.query_params = Some(QueryMap(QueryPairs(In)))
            /\ Out.status = In.status
       ELSE /\ Out.status = Some(414)
            /\ Out.query_params = None

\* fetch_query_params was called with validate_utf8 = false on a query
\* whose pair is not valid UTF-8, and answered 414 with nothing fetched
C16_OptionNotRead ==
    /\ last.op = "fetch_query_params"
    /\ last.args[1] = [validate_utf8 |-> <<"f", "a", "l", "s", "e">>]
    /\ In.query_params = None
    /\ In.status = None
    /\ QueryPairs(In) = << <<"a", "=", InvalidByte>> >>
    /\ Out.status = Some(414)
    /\ Out.query_params = None

\* the staged cookies other than k are those of the input, unchanged
OtherCookiesKept(k) ==
    /\ DOMAIN Out.resp_cookies \ {k} = DOMAIN In.resp_cookies \ {k}
    /\ \A x \in DOMAIN In.resp_cookies \ {k} : Out.resp_cookies[x] = In.resp_cookies[x]

C18_DeleteRespCookie ==
    last.op = "delete_resp_cookie" =>
        LET k      == last.args[1]
            opts   == last.args[2]
            secure == IF In.scheme = "https" THEN {"secure"} ELSE {}
        IN  /\ last.tag = "Conn"
            /\ OtherCookiesKept(k)
            /\ IF MapHas(In.resp_cookies, k)
               THEN /\ MapHas(Out.resp_cookies, k)
                    /\ Out.resp_cookies[k] =
                          [x \in DOMAIN opts \cup {"max_age", "universal_time"} \cup secure |->
                              CASE x = "max_age"        -> <<"0">>
                                [] x = "universal_time" -> <<"Thu, 01 Jan 1970 00:00:00 GMT">>
                                [] x = "secure"         -> <<"true">>
                                [] OTHER                -> opts[x]]
                    /\ ~MapHas(Out.resp_cookies[k], "value")
                    /\ Changed \subseteq {"resp_cookies"}
               ELSE Out = In

\* on an https Conn the staged cookie k was deleted with a path and a
\* max_age of the caller's: the map holds the path, max_age 0, the epoch
\* and secure, and no value
C18_DeletedOnHttps ==
    /\ last.op = "delete_resp_cookie"
    /\ last.args = << <<"k">>, [path |-> <<"/", "p">>, max_age |-> <<"1", "0">>] >>
    /\ In.scheme = "https"
    /\ MapHas(In.resp_cookies, <<"k">>)
    /\ MapHas(In.resp_cookies[<<"k">>], "value")
    /\ Out.resp_cookies[<<"k">>] =
          [path |-> <<"/", "p">>, max_age |-> <<"0">>, secure |-> <<"true">>,
           universal_time |-> <<"Thu, 01 Jan 1970 00:00:00 GMT">>]

\* the staged cookies of a Conn that delete_resp_cookie overwrote
Deleted(c) ==
    { k \in DOMAIN c.resp_cookies :
        /\ MapHas(c.resp_cookies[k], "universal_time")
        /\ c.resp_cookies[k]["universal_time"] = <<"Thu, 01 Jan 1970 00:00:00 GMT">>
        /\ MapHas(c.resp_cookies[k], "max_age")
        /\ c.resp_cookies[k]["max_age"] = <<"0">> }

\* a Set-Cookie line carries the directive with the value
HasDirective(line, directive, value) ==
    \E i \in 1..(Len(line) - Len(value)) :
        /\ line[i] = directive
        /\ SubSeq(line, i + 1, i + Len(value)) = value

\* C19: deleting a cookie reaches the client: when the final Conn holds a
\* staged cookie that delete_resp_cookie overwrote, the response the
\* transport adapter serializes from it has a Set-Cookie line for that
\* cookie that expires it (Max-Age=0 with the epoch expiry).
C19_DeletionReachesClient ==
    last.op = "set_http_handler" =>
        \A k \in Deleted(In) :
            /\ k \in DOMAIN last.args[1].set_cookie
            /\ HasDirective(last.args[1].set_cookie[k], "; Max-Age=", <<"0">>)
            /\ HasDirective(last.args[1].set_cookie[k], "; Expires=",
                            <<"Thu, 01 Jan 1970 00:00:00 GMT">>)

\* the response was serialized from a Conn that holds the staged cookie s
\* and the deleted cookie k: it has the line of s and no line for k
C19_NoLineForDeleted ==
    /\ last.op = "set_http_handler"
    /\ <<"k">> \in Deleted(In)
    /\ MapHas(In.resp_cookies, <<"s">>)
    /\ DOMAIN last.args[1].set_cookie = { <<"s">> }
    /\ last.args[1].set_cookie[<<"s">>] =
          <<"s", "_cookie=", "w", "; Path=/", "; Max-Age=", "1", "0">>

WithoutKey(hs, k) == SelectSeq(hs, LAMBDA e : LowerKey[e[1]] # LowerKey[k])

\* C22: delete_req_header(c, k) and delete_resp_header(c, k), in a
\* permitted state, remove every value stored under k and leave all other
\* keys unchanged; on an absent key they return Ok with headers equal to
\* the input's, so deleting twice equals deleting once.
C22_DeleteHeader ==
    /\ last.op = "delete_req_header" =>
          /\ (In.state # "Sent") = (last.tag = "Ok")
          /\ last.tag = "Ok" =>
                /\ get_req_header(Out, last.args[1]) = << >>
                /\ Out.req_headers = WithoutKey(In.req_headers, last.args[1])
                /\ Changed \subseteq {"req_headers"}
                /\ get_req_header(In, last.args[1]) = << >> => Out = In
                /\ delete_req_header(Out, last.args[1], heap).conn = Out
    /\ last.op = "delete_resp_header" =>
          /\ (~StateGuard(In)) = (last.tag = "Ok")
          /\ last.tag = "Ok" =>
                /\ get_resp_header(Out, last.args[1]) = << >>
                /\ Out.resp_headers = WithoutKey(In.resp_headers, last.args[1])
                /\ Changed \subseteq {"resp_headers"}
                /\ get_resp_header(In, last.args[1]) = << >> => Out = In
                /\ delete_resp_header(Out, last.args[1], heap).conn = Out

\* delete_req_header removed the three values the key x held (the
\* request's and two prepended ones), the other keys staying
C22_AllValuesRemoved ==
    /\ last.op = "delete_req_header"
    /\ last.tag = "Ok"
    /\ Len(get_req_header(In, "x")) = 3
    /\ get_req_header(Out, "x") = << >>
    /\ Len(Out.req_headers) = Len(In.req_headers) - 3
    /\ get_req_header(Out, "cookie") = get_req_header(In, "cookie")
    /\ get_req_header(Out, "cookie") # << >>

\* the values under k before and after a bulk header operation, and the
\* values the argument supplies for k (none for host on the request side,
\* where the entry goes to the host field)
BulkBefore(k) ==
    IF last.op \in {"merge_req_headers", "prepend_req_headers"}
    THEN get_req_header(In, k) ELSE get_resp_header(In, k)

BulkAfter(k) ==
    IF last.op \in {"merge_req_headers", "prepend_req_headers"}
    THEN get_req_header(Out, k) ELSE get_resp_header(Out, k)

BulkSupplied(k) ==
    IF last.op \in {"merge_req_headers", "prepend_req_headers"} /\ LowerKey[k] = "host"
    THEN << >> ELSE HdrValues(last.args[1], k)

UpdateBefore ==
    IF last.op = "update_req_header"
    THEN get_req_header(In, last.args[1]) ELSE get_resp_header(In, last.args[1])

UpdateAfter ==
    IF last.op = "update_req_header"
    THEN get_req_header(Out, last.args[1]) ELSE get_resp_header(Out, last.args[1])

\* the values of a sequence, counted
BagOf(s) == [v \in { s[i] : i \in 1..Len(s) } |-> Cardinality({ i \in 1..Len(s) : s[i] = v })]

\* C24: update_req_header / update_resp_header(c, k, initial, f), in a
\* permitted state: if k has no value, the result holds exactly one value
\* initial under k; if k has values, the first value old is replaced by
\* f(old), the other values of k and their number are unchanged; other
\* keys are unchanged.
C24_UpdateHeader ==
    (last.op \in {"update_req_header", "update_resp_header"} /\ ~StateGuard(In)) =>
        /\ last.tag = "Ok"
        /\ IF UpdateBefore = << >>
           THEN UpdateAfter = << last.args[2] >>
           ELSE BagOf(UpdateAfter)
                   = BagOf(<< ApplyFunc(last.args[3], UpdateBefore[1]) >> \o Tail(UpdateBefore))
        /\ WithoutKey(Out.req_headers, last.args[1]) = WithoutKey(In.req_headers, last.args[1])
        /\ WithoutKey(Out.resp_headers, last.args[1]) = WithoutKey(In.resp_headers, last.args[1])

\* update_resp_header on an UNSET Conn without the key: the call ended
\* the process, or returned Ok with no value under the key
C24_InitialNotStored ==
    /\ last.op = "update_resp_header"
    /\ In.state = "UNSET"
    /\ get_resp_header(In, last.args[1]) = << >>
    /\ \/ last.tag = "Raise"
       \/ last.tag = "Ok" /\ get_resp_header(Out, last.args[1]) = << >>

(***************************************************************************)
(* The plugs of a route chained on the one Conn of a request: session,     *)
(* assigns, halt and before-send operations, each on the Conn the one      *)
(* before returned; the state member is public and assigned on a copy.     *)
(***************************************************************************)
NextPlug ==
    \* Conn::put_session
    \/ \E a \in { <<"sk", "v1">>, <<"sk", "v2">>, <<"sj", "v1">> } :
          Then("put_session", a, put_session(conns[Len(conns)], a[1], a[2], heap))
    \* Conn::delete_session
    \/ Then("delete_session", <<"sk">>, delete_session(conns[Len(conns)], "sk", heap))
    \* Conn::clear_session
    \/ Then("clear_session", << >>, clear_session(conns[Len(conns)], heap))
    \* Conn::register_before_send
    \/ \E cb \in {"cb1", "cb2"} :
          Then("register_before_send", <<cb>>,
               register_before_send(conns[Len(conns)], cb, heap))
    \* Conn::assign
    \/ \E a \in { <<"a", 1>>, <<"c", 3>> } :
          Then("assign", a, assign(conns[Len(conns)], a[1], a[2], heap))
    \* Conn::merge_assigns
    \/ LET m == [a |-> 2, b |-> 1]
       IN  Then("merge_assigns", <<m>>, merge_assigns(conns[Len(conns)], m, heap))
    \* Conn::halt
    \/ Then("halt", << >>, halt(conns[Len(conns)], heap))
    \* conn.state = ... on a copy
    \/ \E st \in ConnState :
          Then("set_state", <<st>>,
               Ret("Conn", [conns[Len(conns)] EXCEPT !.state = st], heap))

SpecPlug == Init /\ [][NextPlug]_vars

(***************************************************************************)
(* Properties of the session, before-send and assigns operations, read off *)
(* the last call of the chain.                                             *)
(***************************************************************************)
\* C25: session writes go to the working copy only: through any sequence
\* of put_session, delete_session and clear_session on Conns derived from
\* a Conn built with session S, the contents of S are unchanged; on the
\* resulting Conn get_session(k) returns the value of the last
\* put_session for k not followed by a delete_session of k or a
\* clear_session, and an empty value otherwise.  (The second part is
\* stated step by step: what each call makes of the value before it.)
C25_SessionWorkingCopy ==
    /\ \A i \in 1..Len(conns) : conns[i].session = 1
    /\ heap[1] = EmptyMap
    /\ \A k \in {"sk", "sj"} :
          IF last.op = "Conn" THEN get_session(conns[1], k, heap) = None
          ELSE last.tag # "Raise" =>
                  get_session(Out, k, heap) =
                     CASE last.op = "put_session" /\ last.args[1] = k    -> Some(last.args[2])
                       [] last.op = "delete_session" /\ last.args[1] = k -> None
                       [] last.op = "clear_session"                      -> None
                       [] OTHER -> get_session(In, k, heap)

\* sk was put, put again with another value and the session cleared:
\* each Conn of the chain reads its own value and S is empty
C25_PutPutClear ==
    /\ Len(conns) = 4
    /\ last.op = "clear_session"
    /\ get_session(conns[2], "sk", heap) = Some("v1")
    /\ get_session(conns[3], "sk", heap) = Some("v2")
    /\ get_session(conns[4], "sk", heap) = None
    /\ heap[conns[4].session] = EmptyMap

\* C26: register_before_send(c, cb) raises when c.state is Sent and
\* produces no Conn; in every other state it returns a Conn whose
\* callback list is c's list with cb appended at the end, so the list
\* holds the callbacks in registration order, and no other field changes.
C26_RegisterBeforeSend ==
    last.op = "register_before_send" =>
        IF In.state = "Sent" THEN last.tag = "Raise" /\ last.res = 0
        ELSE /\ last.tag = "Conn"
             /\ Out.callbacks_before_send = In.callbacks_before_send \o << last.args[1] >>
             /\ Changed \subseteq {"callbacks_before_send"}

\* cb2, cb1 and cb2 again were registered in that order
C26_ThreeInOrder ==
    /\ last.op = "register_before_send"
    /\ In.callbacks_before_send = <<"cb2", "cb1">>
    /\ Out.callbacks_before_send = <<"cb2", "cb1", "cb2">>

\* C27: assign, merge_assigns and halt never fail in any connection
\* state: assign sets assigns[key] to the value, merge_assigns sets every
\* key of the given map (overwriting keys already present and keeping the
\* others), halt sets halted to true; each leaves every other field of
\* the Conn, state included, unchanged.
C27_NeverFail ==
    last.op \in {"assign", "merge_assigns", "halt"} =>
        /\ last.tag = "Conn"
        /\ Out.state = In.state
        /\ last.op = "assign" =>
              /\ DOMAIN Out.assigns = DOMAIN In.assigns \cup {last.args[1]}
              /\ \A k \in DOMAIN Out.assigns :
                    Out.assigns[k] = IF k = last.args[1] THEN last.args[2] ELSE In.assigns[k]
              /\ Changed \subseteq {"assigns"}
        /\ last.op = "merge_assigns" =>
              /\ DOMAIN Out.assigns = DOMAIN In.assigns \cup DOMAIN last.args[1]
              /\ \A k \in DOMAIN Out.assigns :
                    Out.assigns[k] = IF k \in DOMAIN last.args[1] THEN last.args[1][k]
                                     ELSE In.assigns[k]
              /\ Changed \subseteq {"assigns"}
        /\ last.op = "halt" =>
              /\ Out.halted
              /\ Changed \subseteq {"halted"}

\* merge_assigns on a Sent Conn that held a and c: a is overwritten, b
\* added, c kept, the state still Sent
C27_MergedOnSent ==
    /\ last.op = "merge_assigns"
    /\ In.state = "Sent"
    /\ In.assigns = [c |-> 3]
    /\ Out.assigns = [a |-> 2, b |-> 1, c |-> 3]
    /\ Out.state = "Sent"

(***************************************************************************)
(* Dispatch and the halted flag.                                           *)
(***************************************************************************)
\* the router with the halt plug taken out of every pipeline
WithoutHalt(r) ==
    [r EXCEPT !.pipelines =
        [p \in DOMAIN r.pipelines |-> SelectSeq(r.pipelines[p], LAMBDA plug : plug # "halt")]]

\* the outcome r is the one the last dispatch had, the halted flag apart
SameButHalted(r) ==
    /\ r.tag = last.tag
    /\ r.tag # "Raise" =>
          [r.conn EXCEPT !.halted = TRUE] = [conns[last.res] EXCEPT !.halted = TRUE]

\* C28: dispatch does not short-circuit on halted: when the inbound Conn
\* is halted or a plug of the scope's pipeline returns a halted Conn,
\* every remaining plug and the terminal handler still run, and the
\* result is H(P(conn)) as for a Conn that is not halted: the dispatch
\* with the halt plugs taken out, and the dispatch of the inbound Conn
\* with halted set, give the same Conn, the flag apart.
C28_NoShortCircuit ==
    Dispatched =>
        /\ SameButHalted(router_handler(WithoutHalt(router), iterOrder, conns[1], heap))
        /\ SameButHalted(router_handler(router, iterOrder,
                                        [conns[1] EXCEPT !.halted = TRUE], heap))
        /\ (last.tag # "Raise" /\ Matching(conns[1]) # {}) =>
              \E m \in Matching(conns[1]) :
                  LET scope == router.scopes[m[1]][m[2]]
                      plugs == IF scope.pipeline = None THEN << >>
                               ELSE PlugsOf(scope.pipeline[1])
                  IN  conns[2].halted = (\E i \in 1..Len(plugs) : plugs[i] = "halt")

\* a GET went through p1, whose last plug is halt, then through p2 and
\* the text handler: the result is halted and bears the marks of the
\* plugs of p2 and of the handler
C28_RanAfterHalt ==
    /\ Dispatched
    /\ last.tag = "Conn"
    /\ conns[1].method = "get"
    /\ ~conns[1].halted
    /\ conns[2].halted
    /\ conns[2].callbacks_before_send = <<"c">>
    /\ MapHas(conns[2].assigns, "key_test")
    /\ conns[2].resp_body = Some(<<"hello">>)
    /\ conns[2].state = "SET"


\* a text without the blanks around it
Stripped(t) ==
    LET inked == { i \in 1..Len(t) : t[i] # " " }
        first == CHOOSE i \in inked : \A j \in inked : i <= j
        final == CHOOSE i \in inked : \A j \in inked : j <= i
    IN  IF inked = {} THEN << >> ELSE SubSeq(t, first, final)

\* the cookies a cookie header names: of every segment between semicolons
\* that has an "=", the text before the first "=" and the text after it,
\* both without the blanks around them, unless the former begins with an
\* uppercase letter; of two segments with one name the later gives the value
CookiePairsOf(s) ==
    LET cuts     == {0, Len(s) + 1} \cup { i \in 1..Len(s) : s[i] = ";" }
        next(a)  == CHOOSE b \in cuts : b > a /\ \A c \in cuts : c > a => b <= c
        seg(a)   == SubSeq(s, a + 1, next(a) - 1)
        signs(a) == { i \in 1..Len(seg(a)) : seg(a)[i] = "=" }
        eq(a)    == CHOOSE i \in signs(a) : \A j \in signs(a) : i <= j
        name(a)  == Stripped(SubSeq(seg(a), 1, eq(a) - 1))
        val(a)   == Stripped(SubSeq(seg(a), eq(a) + 1, Len(seg(a))))
        kept     == { a \in cuts : /\ a <= Len(s)
                                   /\ signs(a) # {}
                                   /\ ~(name(a) # << >> /\ IsUpper(name(a)[1])) }
        latest(k) == CHOOSE a \in kept : name(a) = k /\ \A b \in kept : name(b) = k => b <= a
    IN  [k \in { name(a) : a \in kept } |-> val(latest(k))]

\* C29: ParseCookie(s) is exactly the key=value pairs of the segments of
\* s between semicolons whose trimmed key does not begin with an uppercase
\* letter, key and value trimmed; a segment without "=" and a pair with an
\* uppercase key (Path, Domain, Secure, HttpOnly) are absent, and of a
\* repeated key the last pair wins. Observed where fetch_cookies parses
\* the cookie headers of a request.
C29_ParseCookie ==
    (last.op = "fetch_cookies" /\ In.req_cookies = None) =>
        /\ \A i \in 1..Len(CookieHeaders(In)) :
              ParseCookie(CookieHeaders(In)[i]) = CookiePairsOf(CookieHeaders(In)[i])
        /\ Len(CookieHeaders(In)) = 1 =>
              Out.req_cookies = Some(CookiePairsOf(CookieHeaders(In)[1]))

\* fetch_cookies has parsed " a = 1 ;Secure; a=2;Path=/;b;=z": a has the
\* value of the later pair, Secure, Path and b are absent
C29_AttributesDropped ==
    /\ last.op = "fetch_cookies"
    /\ In.req_cookies = None
    /\ Len(CookieHeaders(In)) = 1
    /\ Len(CookieHeaders(In)[1]) = 31
    /\ Out.req_cookies = Some((<<"a">> :> <<"2">>) @@ (<< >> :> <<"z">>))

\* C30: the query string of a Conn is GetQueryFromTarget of its target:
\* empty when the target has no "?", the text after the first "?" when it
\* has no "#", and otherwise the text strictly between the first "?" and
\* the first "#", also when the "#" comes before the first "?".
C30_QueryFromTarget ==
    \A n \in 1..Len(conns) :
        LET t      == conns[n].request_url
            marks  == { i \in 1..Len(t) : t[i] = "?" }
            hashes == { i \in 1..Len(t) : t[i] = "#" }
            q      == CHOOSE i \in marks : \A j \in marks : i <= j
            h      == CHOOSE i \in hashes : \A j \in hashes : i <= j
        IN  conns[n].query_string =
                IF marks = {} THEN << >>
                ELSE IF hashes = {} THEN SubSeq(t, q + 1, Len(t))
                ELSE SubSeq(t, q + 1, h - 1)

\* the Conn of the target /x#f?a=1 has the query string a=1, the text
\* after the "?", which is not between the "?" and the "#"
C30_FragmentBeforeQuery ==
    /\ conns[1].request_url = <<"/", "x", "#", "f", "?", "a", "=", "1">>
    /\ conns[1].query_string = <<"a", "=", "1">>

(***************************************************************************)
(* functional::multimap: an immer::map from key to the vector of the      *)
(* key's values.  A container is immutable and is reached through its     *)
(* root, so the containers live in `heap` and a multimap is the address   *)
(* of its container, which is what identity() returns.                    *)
(***************************************************************************)
\* number of containers kept in the heap
MaxMaps == 4

\* an insert with the meaning of immer::map::insert: the value replaces
\* the vector of the key
multimap_insert_replaces(h, a, value) ==
    [heap |-> Append(h, MapSet(h[a], value[1], << value[2] >>)), res |-> Len(h) + 1]

\* multimap::insert(value): the vector of the key, or an empty one, with
\* value.second pushed back, inserted in a copy of the container
multimap_insert(h, a, value) ==
    LET vec == IF MapHas(h[a], value[1]) THEN h[a][value[1]] ELSE << >>
    IN  [heap |-> Append(h, MapSet(h[a], value[1], Append(vec, value[2]))),
         res  |-> Len(h) + 1]

\* multimap::erase(k): a multimap of the container without k, or *this
multimap_erase(h, a, k) ==
    IF MapHas(h[a], k)
    THEN [heap |-> Append(h, MapErase(h[a], k)), res |-> Len(h) + 1]
    ELSE [heap |-> h, res |-> a]

\* multimap::find(key): a pointer to the element 0 of the key's vector
multimap_find(m, key) == IF MapHas(m, key) THEN Some(m[key][1]) ELSE None

\* multimap::size(): the sizes of the vectors added up
multimap_size(m) ==
    LET RECURSIVE Sum(_)
        Sum(keys) == IF keys = {} THEN 0
                     ELSE LET k == CHOOSE x \in keys : TRUE
                          IN  Len(m[k]) + Sum(keys \ {k})
    IN  Sum(DOMAIN m)

InitMultimap ==
    /\ heap = << EmptyMap >>
    /\ conns = << >>
    /\ last = Call("multimap", 0, << >>, "Ok", 1)
    /\ router = EmptyRouter
    /\ iterOrder = << >>
    /\ registered = << >>
    /\ server = Server

NextMultimap ==
    \/ \E a \in 1..Len(heap), k \in {"p", "q"}, v \in {"s1", "s2"} :
          LET r == multimap_insert(heap, a, <<k, v>>)
          IN  /\ Len(heap) < MaxMaps
              /\ heap' = r.heap
              /\ last' = Call("insert", a, <<k, v>>, "Ok", r.res)
              /\ UNCHANGED <<conns, router, iterOrder, registered, server>>
    \/ \E a \in 1..Len(heap), k \in {"p", "q"} :
          LET r == multimap_erase(heap, a, k)
          IN  /\ Len(heap) < MaxMaps
              /\ heap' = r.heap
              /\ last' = Call("erase", a, <<k>>, "Ok", r.res)
              /\ UNCHANGED <<conns, router, iterOrder, registered, server>>
    \/ \E a \in 1..Len(heap), k \in {"p", "q"} :
          /\ last' = Call("find", a, <<k>>, multimap_find(heap[a], k), a)
          /\ UNCHANGED <<conns, heap, router, iterOrder, registered, server>>
    \/ \E a \in 1..Len(heap) :
          /\ last' = Call("size", a, << >>, multimap_size(heap[a]), a)
          /\ UNCHANGED <<conns, heap, router, iterOrder, registered, server>>

SpecMultimap == InitMultimap /\ [][NextMultimap]_vars

\* the values a container holds under a key, none when the key is absent
ValuesOf(m, k) == IF k \in DOMAIN m THEN m[k] ELSE << >>

\* C31: functional::multimap is persistent and keeps the order of
\* insertion per key: insert({k, v}) returns a new multimap whose values
\* of k are the old ones followed by v (the other keys as they were) and
\* no operation changes a multimap that exists; find(k) is the first
\* value inserted under k and null when k is absent; erase(k) removes all
\* values of k and returns the multimap itself (same identity, so equal)
\* when k is absent; size() is the total number of stored values.
C31_Multimap ==
    [][ LET src == heap[last'.src]
            res == heap'[last'.res]
            k   == last'.args[1]
        IN  /\ \A a \in 1..Len(heap) : heap'[a] = heap[a]
            /\ last'.op = "insert" =>
                  /\ last'.res \notin 1..Len(heap)
                  /\ ValuesOf(res, k) = ValuesOf(src, k) \o << last'.args[2] >>
                  /\ \A x \in {"p", "q"} \ {k} : ValuesOf(res, x) = ValuesOf(src, x)
                  /\ multimap_find(res, k) =
                        IF multimap_find(src, k) = None THEN Some(last'.args[2])
                        ELSE multimap_find(src, k)
                  /\ multimap_size(res) = multimap_size(src) + 1
            /\ last'.op = "erase" =>
                  /\ ValuesOf(res, k) = << >>
                  /\ \A x \in {"p", "q"} \ {k} : ValuesOf(res, x) = ValuesOf(src, x)
                  /\ ValuesOf(src, k) = << >> => last'.res = last'.src
                  /\ multimap_size(res) = multimap_size(src) - Len(ValuesOf(src, k))
            /\ last'.op = "find" =>
                  last'.tag = IF ValuesOf(src, k) = << >> THEN None
                              ELSE Some(ValuesOf(src, k)[1])
            /\ last'.op = "size" =>
                  last'.tag = Cardinality({ e \in {"p", "q"} \X (1..MaxMaps) :
                                             e[2] <= Len(ValuesOf(src, e[1])) })
      ]_vars

\* s2 was inserted under p into a multimap that held s1 under p: the new
\* one holds s1, s2 in that order, finds s1, and the old one still holds s1
C31_SecondValueAppended ==
    /\ last.op = "insert"
    /\ last.args = <<"p", "s2">>
    /\ heap[last.src] = [p |-> <<"s1">>]
    /\ heap[last.res] = [p |-> <<"s1", "s2">>]
    /\ multimap_find(heap[last.res], "p") = Some("s1")

(***************************************************************************)
(* Properties of the router's matching.                                    *)
(***************************************************************************)
\* the places of the path where the prefix occurs, counted from 0
Occurrences(pfx, path) ==
    { p \in 0..(Len(path) - Len(pfx)) : SubSeq(path, p + 1, p + Len(pfx)) = pfx }

\* the path from the first occurrence of the prefix to its end
KeyFor(pfx, path) ==
    LET p == CHOOSE x \in Occurrences(pfx, path) : \A y \in Occurrences(pfx, path) : x <= y
    IN  SubSeq(path, p + 1, Len(path))

\* the scopes of the router, as <<prefix, place under the prefix>>
ScopesOf(r) ==
    { m \in Prefixes \X (1..MaxScopes + 1) :
        MapHas(r.scopes, m[1]) /\ m[2] <= Len(r.scopes[m[1]]) }

\* the scopes whose prefix occurs in the path of the Conn and whose table
\* for its method holds the path from that occurrence on
Hits(c) ==
    { m \in ScopesOf(router) :
        /\ Occurrences(m[1], c.request_path) # {}
        /\ KeyFor(m[1], c.request_path)
              \in DOMAIN RouteTable(router.scopes[m[1]][m[2]], c.method) }

\* C32: scope matching is by substring: a scope is considered whenever
\* its prefix occurs anywhere in the request path; the lookup key is the
\* path from the first occurrence of the prefix to the end, the prefix
\* included, and it matches a route only when it equals the route's path.
\* Dispatch runs a scope found that way, and returns the inbound Conn
\* when there is none.
C32_SubstringMatch ==
    Dispatched =>
        /\ Hits(conns[1]) = Matching(conns[1])
        /\ IF Hits(conns[1]) = {}
           THEN last.tag = "Conn" /\ conns[2] = conns[1]
           ELSE \E m \in Hits(conns[1]) : SameOutcome(Composed(m, conns[1], heap))

\* GET /b/a was dispatched by a router whose only prefix is /a, to the
\* route /a with the text handler
C32_PrefixInsidePath ==
    /\ Dispatched
    /\ conns[1].request_path = <<"/", "b", "/", "a">>
    /\ conns[1].method = "get"
    /\ DOMAIN router.scopes = { <<"/", "a">> }
    /\ last.tag = "Conn"
    /\ conns[2].resp_body = Some(<<"hello">>)

\* the text begins with the prefix
BeginsWith(t, pfx) == Len(pfx) <= Len(t) /\ SubSeq(t, 1, Len(pfx)) = pfx

\* the scopes that hold, for the method of the Conn, a route whose path
\* begins with the scope's prefix and is the path of the Conn from the
\* first occurrence of the prefix on
Live(c) ==
    { m \in ScopesOf(router) :
        \E R \in DOMAIN RouteTable(router.scopes[m[1]][m[2]], c.method) :
            /\ BeginsWith(R, m[1])
            /\ Occurrences(m[1], c.request_path) # {}
            /\ R = KeyFor(m[1], c.request_path) }

\* C36: a route with path R in a scope with prefix P is dispatched only
\* for request paths that contain P and whose suffix from the first
\* occurrence of P is R, so a dispatched route's path begins with its
\* scope's prefix; a route whose path does not begin with the prefix is
\* matched by no request, and the request for the prefix followed by the
\* route's path is returned unchanged.
C36_RouteReachability ==
    Dispatched =>
        /\ Live(conns[1]) = {} => (last.tag = "Conn" /\ conns[2] = conns[1])
        /\ Live(conns[1]) # {} => \E m \in Live(conns[1]) : SameOutcome(Composed(m, conns[1], heap))
        /\ \A m \in Matching(conns[1]) : BeginsWith(LookupPath(m[1], conns[1]), m[1])

\* GET /a/b was dispatched by a router whose only scope has the prefix /a
\* and the route /b, and came back unchanged
C36_RouteNeverMatched ==
    /\ Dispatched
    /\ conns[1].request_path = <<"/", "a", "/", "b">>
    /\ conns[1].method = "get"
    /\ DOMAIN router.scopes = { <<"/", "a">> }
    /\ \A i \in 1..Len(router.scopes[<<"/", "a">>]) :
          MapHas(router.scopes[<<"/", "a">>][i].get, <<"/", "b">>)
    /\ last.tag = "Conn"
    /\ conns[2] = conns[1]

\* the router with, in every scope, the names the router holds no
\* pipeline for taken out of the scope's names
KnownOnly(r) ==
    [r EXCEPT !.scopes =
        [p \in DOMAIN r.scopes |->
            [i \in 1..Len(r.scopes[p]) |->
                IF r.scopes[p][i].pipeline = None THEN r.scopes[p][i]
                ELSE [r.scopes[p][i] EXCEPT !.pipeline =
                        Some(SelectSeq(r.scopes[p][i].pipeline[1],
                                       LAMBDA n : MapHas(r.pipelines, n)))]]]]

\* C37: pipeline names are bound at dispatch time: a scope holds the
\* names it pipes through, and a dispatch runs, for every name, the plugs
\* the router holds under it at that moment, whenever they were
\* registered; a name with no pipeline contributes no plugs and raises
\* nothing, so the dispatch is the one of the router with such names
\* taken out of its scopes.
C37_BoundAtDispatch ==
    Dispatched =>
        /\ SameOutcome(router_handler(KnownOnly(router), iterOrder, conns[1], heap))
        /\ (last.tag = "Conn" /\ Matching(conns[1]) # {}) =>
              \E m \in Matching(conns[1]) :
                  LET scope == router.scopes[m[1]][m[2]]
                  IN  /\ scope.pipeline # None
                      /\ conns[2].callbacks_before_send =
                            Registrations(PlugsOf(scope.pipeline[1]))

\* a PUT went through a scope piped through p1 and p2 while the router
\* held p1 = [reg_a, reg_b] and no p2: the callbacks are a, b
C37_UnknownNameSkipped ==
    /\ Dispatched
    /\ last.tag = "Conn"
    /\ conns[1].method = "put"
    /\ DOMAIN router.pipelines = {"p1"}
    /\ conns[2].callbacks_before_send = <<"a", "b">>

(***************************************************************************)
(* The Conn API alone: the operations of Conn applied to the Conn the      *)
(* constructor built and to the Conns they return; nothing assigns the     *)
(* public state member.                                                    *)
(***************************************************************************)
SpecApi == Init /\ [][ConnOp]_vars

\* C35: from a Conn built by the constructor, under any sequence of Conn
\* operations, the state is one of UNSET, SET, UPGRADED; SET is entered
\* only by resp and UPGRADED only by upgrade_conn; the state never goes
\* back to UNSET and an UPGRADED Conn stays UPGRADED.
C35_ReachableStates ==
    /\ \A i \in 1..Len(conns) : conns[i].state \in {"UNSET", "SET", "UPGRADED"}
    /\ (last.op # "Conn" /\ last.tag # "Raise") =>
          /\ (Out.state = "SET" /\ In.state # "SET") => last.op = "resp"
          /\ (Out.state = "UPGRADED" /\ In.state # "UPGRADED") => last.op = "upgrade_conn"
          /\ Out.state = "UNSET" => In.state = "UNSET"
          /\ In.state = "UPGRADED" => Out.state = "UPGRADED"
          /\ last.op \notin {"resp", "upgrade_conn"} => Out.state = In.state

\* upgrade_conn was called on a Conn that resp had set, and another
\* operation on an UPGRADED Conn left it UPGRADED
C35_SetThenUpgraded ==
    /\ Len(conns) = 3
    /\ conns[1].state = "UNSET"
    /\ conns[2].state = "SET"
    /\ last.op = "upgrade_conn"
    /\ last.src = 2
    /\ Out.state = "UPGRADED"

(***************************************************************************)
(* The Server of feather/server.hpp.  Each handler runs on a thread of    *)
(* the io_service.  The http and the open handler take conn_lock before   *)
(* they touch the registry; the message handler walks the registry        *)
(* without it.  A handler is two steps, so that the steps of two          *)
(* handlers interleave: taking the lock (or beginning the walk), then the *)
(* rest.  What a handler does outside the registry is local to it.        *)
(***************************************************************************)
\* number of handler runs
MaxRequests == 3

\* handles: the http connections are numbered from 1, the websocket
\* connection of the model is 0

\* boost::uuids::to_string(uuid_generator()): the n-th id generated
uuid_generator(n) == << "u", << "1", "2", "3", "4", "5", "6" >>[n] >>

\* the spelling of the text the code appends as a whole
Spelled(tok) ==
    IF tok = "_cookie=" THEN << "_", "c", "o", "o", "k", "i", "e", "=" >> ELSE << tok >>

RECURSIVE NameValue(_)
\* what a client sends back of a Set-Cookie line: the name=value pair,
\* the text before the first directive
NameValue(line) ==
    IF line = << >> \/ line[1] = "; Path=/" THEN << >>
    ELSE Spelled(line[1]) \o NameValue(Tail(line))

\* the router of the served application: one scope under /, piped through
\* p1, with a GET route to the text controller and a PUT route without
\* handler
ServedRouter(plugs) ==
    RouterScope(RouterPipeline(EmptyRouter, "p1", plugs), <<"/">>,
                [Scope EXCEPT !.pipeline = Some(<<"p1">>),
                              !.get = (<<"/", "a">> :> "text"),
                              !.put = (<<"/", "a">> :> nullptr)])

\* the request a handler parses: a method, the path /a and, when the
\* client sends one, a cookie header under the name the client wrote
ServerRequest(method, cookie) ==
    [ method  |-> method,
      target  |-> <<"/", "a">>,
      path    |-> <<"/", "a">>,
      version |-> "HTTP/1.1",
      headers |-> Headers(<< <<"Host", <<"h">> >> >>
                          \o (IF cookie = None THEN << >>
                              ELSE << cookie >>)),
      body    |-> << >> ]

\* the cookie headers of the clients: none, id= with an id of the
\* registry or with an id the server never issued, and, named cookie or
\* Cookie, the name=value pair of the Set-Cookie line the http handler
\* issued for an id
ClientCookies ==
    { None, <<"cookie", <<"i", "d", "=", "z">> >> }
    \cup { <<"cookie", <<"i", "d", "=">> \o id>> : id \in DOMAIN server.connections }
    \cup { <<name, NameValue(set_cookie([value |-> <<"i", "d">> \o <<"_cookie=">> \o id]))>> :
              name \in {"cookie", "Cookie"},
              id \in { x \in DOMAIN server.connections : server.connections[x].hdl # 0 } }

\* the session selection of the http handler (server.hpp 47-66), run with
\* conn_lock held from the lookup or the insert on: the Conn, the heap
\* and the registry it leaves, and the id it generated, if any.  An id
\* the registry does not hold gets a default User, whose session is null,
\* and the constructor of Conn calls shared_clone through it.
http_conn(srv, req, hdl, h) ==
    LET \* the lambda applied to c = Conn(req_cpy, session)
        lambda(session, copy, c, req_with_cookies) ==
            LET cookies == req_with_cookies.req_cookies[1]
            IN  IF MapHas(cookies, <<"i", "d">>)
                THEN LET _id  == cookies[<<"i", "d">>]
                         user == IF MapHas(srv.connections, _id) THEN srv.connections[_id]
                                 ELSE [session |-> 0, hdl |-> -1]
                         mine == Session_clone(copy.heap, user.session)
                     IN  IF user.session = 0
                         THEN [tag |-> "Crash", conn |-> c, heap |-> copy.heap, id |-> None,
                               connections |-> MapSet(srv.connections, _id, user)]
                         ELSE [tag |-> "Conn",
                               conn |-> NewConn(req, user.session, mine.addr, Indeterminate),
                               heap |-> mine.heap, id |-> None,
                               connections |-> srv.connections]
                ELSE LET id == uuid_generator(srv.uuids + 1)
                     IN  [tag |-> "Conn",
                          conn |-> put_resp_cookie(c, <<"i", "d">>, id, EmptyMap,
                                                   copy.heap).conn,
                          heap |-> copy.heap, id |-> Some(id),
                          connections |-> MapSet(srv.connections, id,
                                                 [session |-> session.addr, hdl |-> hdl])]
        fetched(session, copy, c) ==
            lambda(session, copy, c, fetch_cookies(c, {}, copy.heap).conn)
        built(session, copy) ==
            fetched(session, copy, NewConn(req, session.addr, copy.addr, Indeterminate))
        made(session) == built(session, Session_clone(session.heap, session.addr))
    IN  made(Alloc(h, EmptyMap))

\* the user the message handler finds: an entry of the registry it walks
\* whose handle is the one of the message
UsersOf(connections, hdl) ==
    { id \in DOMAIN connections : connections[id].hdl = hdl }

InitServer ==
    /\ heap = << >>
    /\ conns = << >>
    /\ last = Call("Server", 0, << >>, "Server", 0)
    /\ \E plugs \in { <<"reg_a", "reg_b", "put_session", "configure_session">>,
                      <<"put_session", "clear_session", "put_session", "delete_session">> } :
          router = ServedRouter(plugs)
    /\ iterOrder = << <<"/">>, <<"/", "a">> >>
    /\ registered = << <<"/">> >>
    /\ server = Server

\* a handler starts on an idle thread
Starts(t) ==
    /\ ~server.crashed
    /\ server.th[t].pc = "idle"
    /\ server.started < MaxRequests

NextServer ==
    \E t \in Threads :
        \* the http handler reaches std::lock_guard lock(conn_lock)
        \/ /\ Starts(t)
           /\ server.conn_lock = 0
           /\ \E cookie \in ClientCookies :
                 server' = [server EXCEPT
                               !.conn_lock = t,
                               !.started = @ + 1,
                               !.th[t] = [pc |-> "http", hdl |-> server.started + 1,
                                          req |-> ServerRequest("GET", cookie)]]
           /\ UNCHANGED <<conns, heap, last, router, iterOrder, registered>>
        \* the http handler looks the id up or inserts the new one, leaves
        \* the lock, dispatches the Conn and writes the response
        \/ /\ server.th[t].pc = "http"
           /\ \E sel \in { http_conn(server, server.th[t].req, server.th[t].hdl, heap) } :
              \E r \in { router_handler(router, iterOrder, sel.conn, sel.heap) } :
              LET req  == server.th[t].req
                  srv  == [server EXCEPT !.connections = sel.connections,
                                         !.uuids = IF sel.id = None THEN @ ELSE @ + 1,
                                         !.conn_lock = 0,
                                         !.th[t] = [pc |-> "idle"]]
              IN  IF sel.tag = "Crash"
                  THEN /\ server' = [srv EXCEPT !.crashed = TRUE]
                       /\ last' = Call("set_http_handler", 0, <<req, None, sel.id>>, "Crash", 0)
                       /\ UNCHANGED <<conns, heap>>
                  ELSE IF r.tag = "Raise"
                  THEN /\ server' = srv
                       /\ conns' = Append(conns, sel.conn)
                       /\ heap' = r.heap
                       /\ last' = Call("set_http_handler", Len(conns) + 1,
                                       <<req, None, sel.id>>, "Raise", 0)
                  ELSE /\ server' = srv
                       /\ conns' = conns \o << sel.conn, r.conn >>
                       /\ heap' = r.heap
                       /\ last' = Call("set_http_handler", Len(conns) + 1,
                                       <<req, Some(Response(r.conn)), sel.id>>,
                                       "Response", Len(conns) + 2)
           /\ UNCHANGED <<router, iterOrder, registered>>
        \* the open handler reaches std::lock_guard lock(conn_lock)
        \/ /\ Starts(t)
           /\ server.conn_lock = 0
           /\ server' = [server EXCEPT !.conn_lock = t, !.started = @ + 1,
                                       !.th[t] = [pc |-> "open"]]
           /\ UNCHANGED <<conns, heap, last, router, iterOrder, registered>>
        \* the open handler inserts a new session under a new id
        \/ /\ server.th[t].pc = "open"
           /\ LET session == Alloc(heap, EmptyMap)
                  id      == uuid_generator(server.uuids + 1)
              IN  /\ heap' = session.heap
                  /\ server' = [server EXCEPT
                                   !.connections = MapSet(@, id, [session |-> session.addr,
                                                                  hdl |-> 0]),
                                   !.uuids = @ + 1,
                                   !.conn_lock = 0,
                                   !.th[t] = [pc |-> "idle"]]
                  /\ last' = Call("set_open_handler", 0, <<id>>, "Ok", 0)
           /\ UNCHANGED <<conns, router, iterOrder, registered>>
        \* the message handler begins to walk the registry
        \/ /\ Starts(t)
           /\ server' = [server EXCEPT !.started = @ + 1,
                                       !.th[t] = [pc |-> "message",
                                                  seen |-> server.connections]]
           /\ UNCHANGED <<conns, heap, last, router, iterOrder, registered>>
        \* the message handler ends the walk, builds the Conn of the user
        \* it found, marks it UPGRADED and dispatches it.  When the
        \* registry was written during the walk, the walk read it while it
        \* changed: it ends on the entries it began with, on those of the
        \* end, or the process dies.
        \/ /\ server.th[t].pc = "message"
           /\ \E walked \in { server.th[t].seen, server.connections } :
              \E died \in { FALSE, server.th[t].seen # server.connections } :
                 LET req  == ServerRequest("PUT", None)
                     srv  == [server EXCEPT !.th[t] = [pc |-> "idle"]]
                     ids  == UsersOf(walked, 0)
                 IN  IF died
                     THEN /\ server' = [srv EXCEPT !.crashed = TRUE]
                          /\ last' = Call("set_message_handler", 0, <<req>>, "Crash", 0)
                          /\ UNCHANGED <<conns, heap>>
                     ELSE IF ids = {}
                     THEN /\ server' = srv
                          /\ last' = Call("set_message_handler", 0, <<req>>, "Raise", 0)
                          /\ UNCHANGED <<conns, heap>>
                     ELSE \E id \in ids :
                          \E copy \in { Session_clone(heap, walked[id].session) } :
                          \E conn \in { [NewConn(req, walked[id].session, copy.addr,
                                                 Indeterminate) EXCEPT !.state = "UPGRADED"] } :
                          \E r \in { router_handler(router, iterOrder, conn, copy.heap) } :
                              /\ server' = srv
                              /\ conns' = IF r.tag = "Raise" THEN Append(conns, conn)
                                          ELSE conns \o << conn, r.conn >>
                              /\ heap' = r.heap
                              /\ last' = Call("set_message_handler", Len(conns) + 1, <<req>>,
                                              r.tag, IF r.tag = "Raise" THEN 0
                                                     ELSE Len(conns) + 2)
           /\ UNCHANGED <<router, iterOrder, registered>>

SpecServer == InitServer /\ [][NextServer]_vars

(***************************************************************************)
(* Properties of the Server, read off the last handler that ended: In is   *)
(* the Conn it built, Out the Conn the router returned, last.args holds    *)
(* the request, the response written and the id generated.                 *)
(***************************************************************************)
\* the callbacks of the model: a sets the status 201, any other 202
Invoke(callback, c) == [c EXCEPT !.status = Some(IF callback = "a" THEN 201 ELSE 202)]

RECURSIVE RunCallbacks(_, _)
\* the callbacks in the order given, each on the result of the one before
RunCallbacks(callbacks, c) ==
    IF callbacks = << >> THEN c
    ELSE RunCallbacks(Tail(callbacks), Invoke(callbacks[1], c))

\* C33: the callbacks registered with register_before_send on the Conn
\* that dispatch returns are invoked in registration order, each on the
\* result of the one before, and the status, body, headers and cookies of
\* the response are written from the Conn that results.
C33_CallbacksRun ==
    (last.op = "set_http_handler" /\ last.tag = "Response") =>
        last.args[2] = Some(Response(RunCallbacks(Out.callbacks_before_send, Out)))

\* the router returned a Conn with the callbacks a, b registered and the
\* response bears the status of the controller, 200: no callback ran
C33_CallbacksNeverRun ==
    /\ last.op = "set_http_handler"
    /\ last.tag = "Response"
    /\ Out.callbacks_before_send = <<"a", "b">>
    /\ last.args[2][1].status = 200

\* C34: every lookup, insert and iteration of the registry is done by a
\* handler that holds conn_lock, in the http, the open and the message
\* handler alike, so no handler reads the registry while another inserts.
C34_RegistryUnderLock ==
    \A t \in Threads :
        server.th[t].pc \in {"http", "open", "message"} => server.conn_lock = t

\* the message handler is walking the registry while another handler
\* holds the lock and is about to insert
C34_WalkDuringInsert ==
    \E t, u \in Threads :
        /\ server.th[t].pc = "message"
        /\ server.th[u].pc \in {"http", "open"}
        /\ server.conn_lock = u

\* C38: every Conn the http handler builds carries a session that is not
\* null: a fresh one registered under a new id for a request without id
\* cookie, the one registered under the id for a request with one, for
\* every id a client can send, ids that are not in the registry included.
C38_SessionNeverNull ==
    /\ \A id \in DOMAIN server.connections : server.connections[id].session # 0
    /\ last.op = "set_http_handler" =>
          /\ last.tag # "Crash"
          /\ In.session \in 1..Len(heap)
          /\ last.args[3] = None =>
                \E id \in DOMAIN server.connections :
                    In.session = server.connections[id].session
          /\ last.args[3] # None =>
                In.session = server.connections[last.args[3][1]].session

\* a request with the cookie id=z, an id the registry did not hold, left
\* a User with a null session in the registry and ended the process
C38_UnknownIdNullSession ==
    /\ last.op = "set_http_handler"
    /\ last.tag = "Crash"
    /\ HdrValues(last.args[1].headers, "Cookie") = << <<"i", "d", "=", "z">> >>
    /\ server.connections[<<"z">>].session = 0

\* the ids whose Set-Cookie pair is the Cookie header of the request
EchoedIds(req) ==
    { id \in DOMAIN server.connections :
        /\ server.connections[id].hdl > 0
        /\ HdrValues(req.headers, "Cookie") =
              << NameValue(Response(put_resp_cookie(NewConn(req, 1, 1, Indeterminate),
                                                    <<"i", "d">>, id, EmptyMap,
                                                    heap).conn).set_cookie[<<"i", "d">>]) >> }

\* C39: when a client sends back, as its Cookie header, the name=value
\* pair of the Set-Cookie line the http handler issued for a new
\* connection, the request is recognised as carrying an id and gets the
\* session of the registry entry of the first request; no new id is
\* generated or staged.
C39_IdRoundTrip ==
    (last.op = "set_http_handler" /\ last.args[3] # None) =>
        EchoedIds(last.args[1]) \ {last.args[3][1]} = {}

\* the request that carried id_cookie=u1, the pair issued with the id u1,
\* was given the new id u2 and a Set-Cookie line for it
C39_EchoGetsNewId ==
    /\ last.op = "set_http_handler"
    /\ last.tag = "Response"
    /\ EchoedIds(last.args[1]) = { <<"u", "1">> }
    /\ last.args[3] = Some(<<"u", "2">>)
    /\ In.session # server.connections[<<"u", "1">>].session
    /\ <<"i", "d">> \in DOMAIN last.args[2][1].set_cookie

\* C40: no step of request processing writes the session object of the
\* registry or the session a Conn was built around: whatever put_session,
\* delete_session, clear_session or configure_session calls earlier
\* requests made, the session of an entry has the contents it was created
\* with (none), and so has the Conn every handler builds, in its session
\* and in its working copy.
C40_SessionNotWrittenBack ==
    /\ \A id \in DOMAIN server.connections :
          server.connections[id].session # 0 =>
              heap[server.connections[id].session] = EmptyMap
    /\ \A i \in 1..Len(conns) : heap[conns[i].session] = EmptyMap
    /\ (last.op \in {"set_http_handler", "set_message_handler"} /\ last.src # 0) =>
          heap[In.session_copy] = EmptyMap

\* the first request got the id u1 and its pipeline put sk in the session
\* of its Conn; the second request carried id=u1, was built around the
\* same session object, and started with an empty session
C40_SecondRequestStartsEmpty ==
    /\ last.op = "set_http_handler"
    /\ last.src = 3
    /\ HdrValues(last.args[1].headers, "Cookie") = << <<"i", "d", "=", "u", "1">> >>
    /\ conns[3].session = conns[1].session
    /\ MapHas(heap[conns[2].session_copy], "sk")
    /\ heap[conns[3].session_copy] = EmptyMap
=============================================================================
